---- MODULE Spec2Model ----
(***************************************************************************)
(* Verification model of the RDF converter: the property-graph ingestion   *)
(* (graph_to_rdf.py), the property-graph extraction (rdf_to_graph.py) and  *)
(* the text extraction (text_to_rdf.py) over the statement store of        *)
(* base_converter.py.                                                      *)
(*                                                                         *)
(* Strings are sequences of one-character atoms, so that sanitisation,     *)
(* percent-encoding, str() and find() are computed and not assumed.  A CJK *)
(* character is the atom "U<codepoint>".                                   *)
(* Python values are tagged tuples: <<"s", chars>> a str, <<"i", n>> an    *)
(* int, <<"n">> None, <<"l", seq>> a list, <<"d", items>> a dict.  A dict  *)
(* is its set of <<key, value>> items.                                     *)
(* A store term is <<"uri", namespace, local name>> or                     *)
(* <<"lit", value, language>>; a statement is <<s, p, o>>; a store is a    *)
(* set of statements (rdflib.Graph has set semantics).                     *)
(***************************************************************************)
EXTENDS Integers, Sequences, FiniteSets, TLC

VARIABLES
    graph,          \* GraphToRDFConverter.graph
    node_uri_map,   \* GraphToRDFConverter.node_uri_map
    edge_counter,   \* GraphToRDFConverter.edge_counter
    last,           \* the last operation: its name, argument and the state before it
    first_uri,      \* history: the identifier the first mint of each key returned
    ingested,       \* history: the edge records ingested since the store was last emptied
    nops,           \* number of operations performed so far
    tgraph,         \* TextToRDFConverter.graph
    use_llm,        \* TextToRDFConverter.use_llm (self.llm is set exactly when it is true)
    tlast,          \* the last text conversion: its inputs, the store before it, its result
    tnops,          \* number of text conversions performed so far
    rule_triples,   \* _merge_triples: the rule_triples argument
    llm_triples,    \* _merge_triples: the llm_triples argument
    merged,         \* _merge_triples: the list returned
    merge_done,     \* whether _merge_triples has returned
    call_args,      \* a function called on its own: its arguments
    call_ret,       \* a function called on its own: the value returned
    call_done,      \* a function called on its own: whether it has returned
    current_rdf,    \* RDFConverterManager.current_rdf: "None", or the converter whose store it is
    current_converter, \* RDFConverterManager.current_converter: "None", "text" or "graph"
    rdf_ok,         \* history: a convert_to_rdf or load returned True since the last clear_rdf
    mlast,          \* the last manager operation: name, arguments, value returned, state before
    mnops           \* number of manager operations performed so far

gvars == <<graph, node_uri_map, edge_counter, last, first_uri, ingested, nops>>

tvars == <<tgraph, use_llm, tlast, tnops>>

mvars == <<rule_triples, llm_triples, merged, merge_done>>

cvars == <<call_args, call_ret, call_done>>

rvars == <<current_rdf, current_converter, rdf_ok, mlast, mnops>>

vars == <<graph, node_uri_map, edge_counter, last, first_uri, ingested, nops,
          tgraph, use_llm, tlast, tnops,
          rule_triples, llm_triples, merged, merge_done,
          call_args, call_ret, call_done,
          current_rdf, current_converter, rdf_ok, mlast, mnops>>

\* Bound on the number of operations of one graph session.
MaxOps == 3

\* Bound on the number of conversions of one text session.
MaxTextOps == 2

\* Bound on the length of each argument of _merge_triples.
MaxMergeLen == 2

\* Bound on the number of tokens of a text given to rule extraction.
MaxTextLen == 3

\* Bound on the number of segments an object string is composed of.
MaxSegments == 4

\* Bound on the number of operations of one manager session.
MaxMgrOps == 2

\* Bound on the number of files of one batch.
MaxFiles == 2

-----------------------------------------------------------------------------
(* Python values *)

StrV(s) == <<"s", s>>
IntV(n) == <<"i", n>>
NoneV == <<"n">>
ListV(xs) == <<"l", xs>>
DictV(items) == <<"d", items>>

IsStr(v) == v[1] = "s"
IsInt(v) == v[1] = "i"
IsList(v) == v[1] = "l"
IsDict(v) == v[1] = "d"

Range(seq) == {seq[i] : i \in 1..Len(seq)}

RECURSIVE Concat(_)
Concat(seqs) == IF seqs = <<>> THEN <<>> ELSE Head(seqs) \o Concat(Tail(seqs))

RECURSIVE IntStr(_)
\* str(n) of a non-negative int
IntStr(n) ==
    LET digit(d) == <<"0", "1", "2", "3", "4", "5", "6", "7", "8", "9">>[d + 1]
    IN IF n < 10 THEN <<digit(n)>> ELSE IntStr(n \div 10) \o <<digit(n % 10)>>

RECURSIVE JoinCommaSpace(_)
JoinCommaSpace(strs) ==
    IF strs = <<>> THEN <<>>
    ELSE IF Len(strs) = 1 THEN strs[1]
    ELSE strs[1] \o <<",", " ">> \o JoinCommaSpace(Tail(strs))

\* repr(v) of a str or an int (no character of the model needs escaping)
PyRepr(v) == IF IsStr(v) THEN <<"'">> \o v[2] \o <<"'">> ELSE IntStr(v[2])

\* str(v)
PyStr(v) ==
    IF IsStr(v) THEN v[2]
    ELSE IF IsInt(v) THEN IntStr(v[2])
    ELSE IF IsList(v)
         THEN <<"[">> \o JoinCommaSpace([i \in 1..Len(v[2]) |-> PyRepr(v[2][i])]) \o <<"]">>
    ELSE <<"N", "o", "n", "e">>

\* bool(v)
Truthy(v) ==
    IF IsStr(v) THEN v[2] # <<>>
    ELSE IF IsInt(v) THEN v[2] # 0
    ELSE IF IsList(v) THEN v[2] # <<>>
    ELSE IF IsDict(v) THEN v[2] # {}
    ELSE FALSE

\* isinstance(v, (str, int, float, bool))
IsPrimitive(v) == IsStr(v) \/ IsInt(v)

Has(d, k) == \E p \in d : p[1] = k
\* d.get(k, dflt)
Get(d, k, dflt) == IF Has(d, k) THEN (CHOOSE p \in d : p[1] = k)[2] ELSE dflt

-----------------------------------------------------------------------------
(* Store terms: base_converter.py *)

Uri(ns, local) == <<"uri", ns, local>>
Lit(v) == <<"lit", v, "">>
LitZh(v) == <<"lit", v, "zh">>
IsUri(t) == t[1] = "uri"
IsLit(t) == t[1] = "lit"

RDF_type == Uri("rdf", <<"t", "y", "p", "e">>)
RDFS_label == Uri("rdfs", <<"l", "a", "b", "e", "l">>)
RDFS_comment == Uri("rdfs", <<"c", "o", "m", "m", "e", "n", "t">>)
OWL_Class == Uri("owl", <<"C", "l", "a", "s", "s">>)

\* create_uri(local_name) in the default namespace 'kg'
create_uri(local_name) == Uri("kg", local_name)

\* add_class(class_uri, label): the statements it adds
add_class(class_uri, label) ==
    {<<class_uri, RDF_type, OWL_Class>>}
    \cup (IF Truthy(label) THEN {<<class_uri, RDFS_label, LitZh(label)>>} ELSE {})

-----------------------------------------------------------------------------
(* _sanitize_name *)

\* The characters of the model that are neither \w nor in 一-鿿.
SpecialChars == {" ", "-", ".", ",", "'", "[", "]", "/", "#", ":"}

\* urllib.parse.quote(c, safe='') of one character that survived the regex:
\* an ASCII word character is kept, any other is the %XX of its UTF-8 bytes.
QuoteChar(c) ==
    CASE c = "U4E09" -> <<"%", "E", "4", "%", "B", "8", "%", "8", "9">>
      [] c = "U4E0E" -> <<"%", "E", "4", "%", "B", "8", "%", "8", "E">>
      [] c = "U4E8E" -> <<"%", "E", "4", "%", "B", "A", "%", "8", "E">>
      [] c = "U4EAC" -> <<"%", "E", "4", "%", "B", "A", "%", "A", "C">>
      [] c = "U4F4D" -> <<"%", "E", "4", "%", "B", "D", "%", "8", "D">>
      [] c = "U4F5C" -> <<"%", "E", "4", "%", "B", "D", "%", "9", "C">>
      [] c = "U516C" -> <<"%", "E", "5", "%", "8", "5", "%", "A", "C">>
      [] c = "U5173" -> <<"%", "E", "5", "%", "8", "5", "%", "B", "3">>
      [] c = "U5236" -> <<"%", "E", "5", "%", "8", "8", "%", "B", "6">>
      [] c = "U5317" -> <<"%", "E", "5", "%", "8", "C", "%", "9", "7">>
      [] c = "U53C2" -> <<"%", "E", "5", "%", "8", "F", "%", "8", "2">>
      [] c = "U53D1" -> <<"%", "E", "5", "%", "8", "F", "%", "9", "1">>
      [] c = "U53F8" -> <<"%", "E", "5", "%", "8", "F", "%", "B", "8">>
      [] c = "U5408" -> <<"%", "E", "5", "%", "9", "0", "%", "8", "8">>
      [] c = "U56DB" -> <<"%", "E", "5", "%", "9", "B", "%", "9", "B">>
      [] c = "U5DE5" -> <<"%", "E", "5", "%", "B", "7", "%", "A", "5">>
      [] c = "U5F20" -> <<"%", "E", "5", "%", "B", "C", "%", "A", "0">>
      [] c = "U6280" -> <<"%", "E", "6", "%", "8", "A", "%", "8", "0">>
      [] c = "U6295" -> <<"%", "E", "6", "%", "8", "A", "%", "9", "5">>
      [] c = "U62E5" -> <<"%", "E", "6", "%", "8", "B", "%", "A", "5">>
      [] c = "U63A7" -> <<"%", "E", "6", "%", "8", "E", "%", "A", "7">>
      [] c = "U6709" -> <<"%", "E", "6", "%", "9", "C", "%", "8", "9">>
      [] c = "U674E" -> <<"%", "E", "6", "%", "9", "D", "%", "8", "E">>
      [] c = "U751F" -> <<"%", "E", "7", "%", "9", "4", "%", "9", "F">>
      [] c = "U79D1" -> <<"%", "E", "7", "%", "A", "7", "%", "9", "1">>
      [] c = "U8054" -> <<"%", "E", "8", "%", "8", "1", "%", "9", "4">>
      [] c = "U8D26" -> <<"%", "E", "8", "%", "B", "4", "%", "A", "6">>
      [] c = "U8D44" -> <<"%", "E", "8", "%", "B", "5", "%", "8", "4">>
      [] c = "U8F6C" -> <<"%", "E", "8", "%", "B", "D", "%", "A", "C">>
      [] OTHER -> <<c>>

ReplaceSpecial(s) == [i \in 1..Len(s) |-> IF s[i] \in SpecialChars THEN "_" ELSE s[i]]

RECURSIVE CollapseUnderscores(_)
CollapseUnderscores(s) ==
    IF Len(s) <= 1 THEN s
    ELSE IF s[1] = "_" /\ s[2] = "_" THEN CollapseUnderscores(Tail(s))
    ELSE <<s[1]>> \o CollapseUnderscores(Tail(s))

RECURSIVE StripUnderscores(_)
StripUnderscores(s) ==
    IF s = <<>> THEN s
    ELSE IF s[1] = "_" THEN StripUnderscores(Tail(s))
    ELSE IF s[Len(s)] = "_" THEN StripUnderscores(SubSeq(s, 1, Len(s) - 1))
    ELSE s

Quote(s) == Concat([i \in 1..Len(s) |-> QuoteChar(s[i])])

\* _sanitize_name(name), name already a string
SanitizeName(name) == Quote(StripUnderscores(CollapseUnderscores(ReplaceSpecial(name))))

-----------------------------------------------------------------------------
(* GraphToRDFConverter: graph_to_rdf.py.                                   *)
(* A converter state c is [graph, map, ctr, calls]: the store, the         *)
(* node_uri_map, the edge_counter, and the log of the calls of             *)
(* _get_or_create_node_uri made so far in the running operation, each      *)
(* <<key, identifier returned>>.                                           *)

\* The keys of node, edge and relationship records, as strings.
Keys ==
    [id |-> <<"i", "d">>,
     name |-> <<"n", "a", "m", "e">>,
     labels |-> <<"l", "a", "b", "e", "l", "s">>,
     label |-> <<"l", "a", "b", "e", "l">>,
     type |-> <<"t", "y", "p", "e">>,
     relation |-> <<"r", "e", "l", "a", "t", "i", "o", "n">>,
     source |-> <<"s", "o", "u", "r", "c", "e">>,
     target |-> <<"t", "a", "r", "g", "e", "t">>,
     from |-> <<"f", "r", "o", "m">>,
     to |-> <<"t", "o">>,
     startNode |-> <<"s", "t", "a", "r", "t", "N", "o", "d", "e">>,
     endNode |-> <<"e", "n", "d", "N", "o", "d", "e">>,
     properties |-> <<"p", "r", "o", "p", "e", "r", "t", "i", "e", "s">>,
     amount |-> <<"a", "m", "o", "u", "n", "t">>,
     memo |-> <<"m", "e", "m", "o">>,
     tags |-> <<"t", "a", "g", "s">>,
     age |-> <<"a", "g", "e">>]

\* The identifier minted for a key that is not in the map.
NewNodeUri(node_id) ==
    create_uri(<<"e", "n", "t", "i", "t", "y", "_">> \o SanitizeName(PyStr(node_id)))

\* A slip in the cache: the identifier stored lacks the entity_ prefix of the
\* identifier returned on the first call.
GetOrCreateNodeUri_StoresOther(c, node_id) ==
    IF node_id \in DOMAIN c.map
    THEN [c EXCEPT !.calls = Append(@, <<node_id, c.map[node_id]>>)]
    ELSE [c EXCEPT !.map = @ @@ (node_id :> create_uri(SanitizeName(PyStr(node_id)))),
                   !.calls = Append(@, <<node_id, NewNodeUri(node_id)>>)]

\* _get_or_create_node_uri(node_id): the converter after the call; the
\* identifier returned is the last entry of calls.
GetOrCreateNodeUri(c, node_id) ==
    LET m == IF node_id \in DOMAIN c.map THEN c.map
             ELSE c.map @@ (node_id :> NewNodeUri(node_id))
    IN [c EXCEPT !.map = m, !.calls = Append(@, <<node_id, m[node_id]>>)]

Returned(c) == c.calls[Len(c.calls)][2]

\* A slip: a list value is not fanned out but stored as one literal of its
\* string form, like any other non-primitive value.
NodeAttrStatements_NoFanOut(node_uri, key, value) ==
    LET prop_uri == create_uri(SanitizeName(key))
    IN IF IsPrimitive(value) THEN {<<node_uri, prop_uri, Lit(value)>>}
       ELSE {<<node_uri, prop_uri, Lit(StrV(PyStr(value)))>>}

\* The statements of one node attribute (key, value).
NodeAttrStatements(node_uri, key, value) ==
    LET prop_uri == create_uri(SanitizeName(key))
    IN IF IsPrimitive(value) THEN {<<node_uri, prop_uri, Lit(value)>>}
       ELSE IF IsList(value) THEN {<<node_uri, prop_uri, Lit(item)>> : item \in Range(value[2])}
       ELSE {<<node_uri, prop_uri, Lit(StrV(PyStr(value)))>>}

\* _add_node_to_rdf(node_id, node_data)
AddNodeToRdf(c, node_id, node_data) ==
    LET c1 == GetOrCreateNodeUri(c, node_id)
        node_uri == Returned(c1)
        raw == Get(node_data, Keys.labels,
                   Get(node_data, Keys.label, ListV(<<StrV(<<"E", "n", "t", "i", "t", "y">>)>>)))
        node_labels == IF IsStr(raw) THEN <<raw>> ELSE raw[2]
        class_uri(l) == create_uri(SanitizeName(PyStr(l)))
        types == UNION {{<<node_uri, RDF_type, class_uri(l)>>} \cup add_class(class_uri(l), l)
                        : l \in Range(node_labels)}
        attrs == UNION {NodeAttrStatements(node_uri, p[1], p[2])
                        : p \in {q \in node_data : q[1] \notin {Keys.id, Keys.labels, Keys.label}}}
    IN [c1 EXCEPT !.graph = @ \cup types \cup attrs]

\* A slip: the alternative endpoint keys are forgotten in the filter.
EdgeReservedKeys_NoFromTo == {Keys.type, Keys.relation, Keys.label, Keys.source, Keys.target}

\* The keys of an edge record that are not edge properties.
EdgeReservedKeys == {Keys.type, Keys.relation, Keys.label, Keys.source, Keys.target, Keys.from, Keys.to}

EdgeProperties(edge_data) == {p \in edge_data : p[1] \notin EdgeReservedKeys}

RelationType(edge_data) ==
    Get(edge_data, Keys.type,
        Get(edge_data, Keys.relation,
            Get(edge_data, Keys.label, StrV(<<"r", "e", "l", "a", "t", "e", "d", "T", "o">>))))

\* create_uri(f"edge_{n}")
EdgeUri(n) == create_uri(<<"e", "d", "g", "e", "_">> \o IntStr(n))
\* create_uri(f"{relation_type}_Edge")
EdgeClassUri(relation_type) == create_uri(PyStr(relation_type) \o <<"_", "E", "d", "g", "e">>)
hasSource == create_uri(<<"h", "a", "s", "S", "o", "u", "r", "c", "e">>)
hasTarget == create_uri(<<"h", "a", "s", "T", "a", "r", "g", "e", "t">>)

\* A slip: every edge property value is stored in its string form.
EdgeAttrStatements_AllStr(edge_uri, key, value) ==
    {<<edge_uri, create_uri(SanitizeName(key)), Lit(StrV(PyStr(value)))>>}

\* The statements of one edge property (key, value).
EdgeAttrStatements(edge_uri, key, value) ==
    LET prop_uri == create_uri(SanitizeName(key))
    IN IF IsPrimitive(value) THEN {<<edge_uri, prop_uri, Lit(value)>>}
       ELSE {<<edge_uri, prop_uri, Lit(StrV(PyStr(value)))>>}

\* _add_edge_to_rdf(source, target, edge_data)
AddEdgeToRdf(c, source, target, edge_data) ==
    LET c1 == GetOrCreateNodeUri(c, source)
        source_uri == Returned(c1)
        c2 == GetOrCreateNodeUri(c1, target)
        target_uri == Returned(c2)
        relation_type == RelationType(edge_data)
        relation_uri == create_uri(SanitizeName(PyStr(relation_type)))
        edge_properties == EdgeProperties(edge_data)
        edge_uri == EdgeUri(c.ctr)
    IN IF edge_properties # {}
       THEN [c2 EXCEPT
               !.ctr = @ + 1,
               !.graph = @ \cup {<<edge_uri, RDF_type, EdgeClassUri(relation_type)>>,
                                 <<edge_uri, hasSource, source_uri>>,
                                 <<edge_uri, hasTarget, target_uri>>}
                           \cup UNION {EdgeAttrStatements(edge_uri, p[1], p[2])
                                       : p \in edge_properties}]
       ELSE [c2 EXCEPT !.graph = @ \cup {<<source_uri, relation_uri, target_uri>>}]

\* _add_relationship_to_rdf(relationship)
AddRelationshipToRdf(c, relationship) ==
    LET source_id == Get(relationship, Keys.startNode, NoneV)
        target_id == Get(relationship, Keys.endNode, NoneV)
        rel_type == Get(relationship, Keys.type, NoneV)
        c1 == GetOrCreateNodeUri(c, source_id)
        source_uri == Returned(c1)
        c2 == GetOrCreateNodeUri(c1, target_id)
        target_uri == Returned(c2)
        relation_uri == create_uri(SanitizeName(PyStr(rel_type)))
        properties == Get(relationship, Keys.properties, DictV({}))
        edge_uri == EdgeUri(c.ctr)
        c3 == [c2 EXCEPT !.graph = @ \cup {<<source_uri, relation_uri, target_uri>>}]
    IN IF Truthy(source_id) /\ Truthy(target_id) /\ Truthy(rel_type)
       THEN IF Truthy(properties)
            THEN [c3 EXCEPT
                    !.ctr = @ + 1,
                    !.graph = @ \cup {<<edge_uri, RDF_type, EdgeClassUri(rel_type)>>,
                                      <<edge_uri, hasSource, source_uri>>,
                                      <<edge_uri, hasTarget, target_uri>>}
                                \cup {<<edge_uri, create_uri(SanitizeName(p[1])), Lit(p[2])>>
                                      : p \in properties[2]}]
            ELSE c3
       ELSE c

RECURSIVE AddNodes(_, _)
\* the loop over json_data['nodes']
AddNodes(c, nodes) ==
    IF nodes = <<>> THEN c
    ELSE AddNodes(AddNodeToRdf(c, Get(Head(nodes), Keys.id, Get(Head(nodes), Keys.name, NoneV)),
                               Head(nodes)),
                  Tail(nodes))

RECURSIVE AddEdges(_, _)
\* the loop over json_data['edges'], and over json_data['links']
AddEdges(c, edges) ==
    IF edges = <<>> THEN c
    ELSE AddEdges(AddEdgeToRdf(c, Get(Head(edges), Keys.source, Get(Head(edges), Keys.from, NoneV)),
                               Get(Head(edges), Keys.target, Get(Head(edges), Keys.to, NoneV)),
                               Head(edges)),
                  Tail(edges))

\* _convert_json_graph_to_rdf(json_data); a key that is absent is an empty list here
ConvertJsonGraphToRdf(c, json_data) ==
    AddEdges(AddEdges(AddNodes(c, json_data.nodes), json_data.edges), json_data.links)

RECURSIVE ConvertRecordItems(_, _)
\* the loop over record.items() of one query-result record
ConvertRecordItems(c, items) ==
    IF items = <<>> THEN c
    ELSE LET key == Head(items)[1]
             value == Head(items)[2]
             c1 == IF IsDict(value) /\ Has(value[2], Keys.labels)
                   THEN AddNodeToRdf(c, Get(value[2], Keys.id, StrV(key)), value[2])
                   ELSE IF IsDict(value) /\ Has(value[2], Keys.type)
                   THEN AddRelationshipToRdf(c, value[2])
                   ELSE c
         IN ConvertRecordItems(c1, Tail(items))

RECURSIVE ConvertCypherResultToRdf(_, _)
\* _convert_cypher_result_to_rdf(cypher_result)
ConvertCypherResultToRdf(c, cypher_result) ==
    IF cypher_result = <<>> THEN c
    ELSE ConvertCypherResultToRdf(ConvertRecordItems(c, Head(cypher_result)),
                                  Tail(cypher_result))

\* A slip: clear_graph starts the edge counter again.
ClearGraphOf_ResetsCounter(c) == [c EXCEPT !.graph = {}, !.ctr = 0]

\* clear_graph(): a new empty store; the map and the counter are kept
ClearGraphOf(c) == [c EXCEPT !.graph = {}]

-----------------------------------------------------------------------------
(* RDFToGraphConverter: rdf_to_graph.py, reading a store g *)

\* What follows the last '/' of the namespace of a term.
NamespaceTail(ns) ==
    CASE ns = "rdf" -> <<"2", "2", "-", "r", "d", "f", "-", "s", "y", "n", "t", "a", "x", "-",
                         "n", "s", "#">>
      [] ns = "rdfs" -> <<"r", "d", "f", "-", "s", "c", "h", "e", "m", "a", "#">>
      [] ns = "owl" -> <<"o", "w", "l", "#">>
      [] OTHER -> <<>>

RECURSIVE AfterLastSlash(_)
AfterLastSlash(s) ==
    IF \E i \in 1..Len(s) : s[i] = "/"
    THEN AfterLastSlash(SubSeq(s, (CHOOSE i \in 1..Len(s) : s[i] = "/") + 1, Len(s)))
    ELSE s

\* uri.split('/')[-1]
UriTail(u) == AfterLastSlash(NamespaceTail(u[2]) \o u[3])

\* _get_node_id(uri)
GetNodeId(u) == [i \in 1..Len(UriTail(u)) |-> IF UriTail(u)[i] = "#" THEN "_" ELSE UriTail(u)[i]]

\* The query of _get_all_entities: typed by a declared class, or any
\* identifier in subject position, or any identifier in object position.
GetAllEntities(g) ==
    {st[1] : st \in {t \in g : t[2] = RDF_type /\ <<t[3], RDF_type, OWL_Class>> \in g}}
    \cup {st[1] : st \in {t \in g : IsUri(t[1])}}
    \cup {st[3] : st \in {t \in g : IsUri(t[3])}}

\* The 'types' of _get_entity_attributes(entity_uri): the tails of the
\* declared classes u is typed by; 'type' of a JSON node is the first of them.
GetEntityTypes(g, u) ==
    {UriTail(st[3]) : st \in {t \in g : t[1] = u /\ t[2] = RDF_type
                                          /\ <<t[3], RDF_type, OWL_Class>> \in g}}

\* The other attributes of _get_entity_attributes(entity_uri): a dict from
\* the tail of each property with a literal value to the string of one of
\* its values, the one the last row of the query holds; the rows come in no
\* fixed order, so every choice is an outcome.
GetEntityAttributes(g, u) ==
    LET rows == {t \in g : t[1] = u /\ t[2] \notin {RDF_type, RDFS_label} /\ IsLit(t[3])}
        names == {UriTail(t[2]) : t \in rows}
    IN {f \in [names -> {PyStr(t[3][2]) : t \in rows}] :
           \A n \in names : \E t \in rows : UriTail(t[2]) = n /\ f[n] = PyStr(t[3][2])}

\* A slip: the query does not leave out the type statements.
GetAllRelationsDetailed_NoTypeFilter(g) ==
    {[stmt |-> st, subject |-> st[1], predicate |-> UriTail(st[2]), predicate_uri |-> st[2],
      object |-> st[3], is_literal |-> IsLit(st[3])]
     : st \in {t \in g : t[2] \notin {RDFS_label, RDFS_comment}}}

\* The query of _get_all_relations_detailed: one row per statement.
GetAllRelationsDetailed(g) ==
    {[stmt |-> st, subject |-> st[1], predicate |-> UriTail(st[2]), predicate_uri |-> st[2],
      object |-> st[3], is_literal |-> IsLit(st[3])]
     : st \in {t \in g : t[2] \notin {RDF_type, RDFS_label, RDFS_comment}}}

\* _convert_to_json: the nodes and the edges (stmt stands for the position
\* of an edge in the list: one entry per row)
ConvertToJson(g) ==
    [nodes |-> {[id |-> GetNodeId(u), uri |-> u] : u \in GetAllEntities(g)},
     edges |-> {[stmt |-> r.stmt, source |-> GetNodeId(r.subject), target |-> GetNodeId(r.object),
                 relation |-> r.predicate, relation_uri |-> r.predicate_uri]
                : r \in {x \in GetAllRelationsDetailed(g) : ~x.is_literal}}]

\* _convert_to_edgelist: (source, target, attrs) per row that is no literal
\* (stmt stands for the position of the entry in the list)
ConvertToEdgelist(g) ==
    {[stmt |-> r.stmt, source |-> GetNodeId(r.subject), target |-> GetNodeId(r.object),
      relation |-> r.predicate, relation_uri |-> r.predicate_uri]
     : r \in {x \in GetAllRelationsDetailed(g) : ~x.is_literal}}

-----------------------------------------------------------------------------
(* The session of one GraphToRDFConverter: inputs and operations *)

\* The keys, labels, relation names and list value of the records below.
Vals ==
    [KeyA |-> StrV(<<"A">>),
     KeyB |-> StrV(<<"B">>),
     KeyAB |-> StrV(<<"a", " ", "b">>),
     Person |-> StrV(<<"P", "e", "r", "s", "o", "n">>),
     Pays |-> StrV(<<"p", "a", "y", "s">>),
     Knows |-> StrV(<<"k", "n", "o", "w", "s">>),
     ListAB |-> ListV(<<StrV(<<"a">>), StrV(<<"b">>)>>)]

\* Node records: labels as a list; a label string with a list attribute; no
\* label and the key under 'name'; the shape of the tests' graph data.
NodeRecords ==
    { {<<Keys.id, Vals.KeyA>>, <<Keys.labels, ListV(<<Vals.Person>>)>>},
      {<<Keys.id, Vals.KeyB>>, <<Keys.label, Vals.Person>>, <<Keys.tags, Vals.ListAB>>},
      {<<Keys.name, Vals.KeyA>>, <<Keys.age, IntV(30)>>},
      {<<Keys.id, Vals.KeyAB>>, <<Keys.label, StrV(<<"U5F20", "U4E09">>)>>, <<Keys.type, Vals.Person>>} }

\* Edge records: attributed; simple with 'type'; simple with from/to and no
\* relation name; without a source; attributed with a list-valued attribute.
EdgeRecords ==
    { {<<Keys.source, Vals.KeyA>>, <<Keys.target, Vals.KeyB>>, <<Keys.relation, Vals.Pays>>, <<Keys.amount, IntV(100)>>},
      {<<Keys.source, Vals.KeyA>>, <<Keys.target, Vals.KeyB>>, <<Keys.type, Vals.Knows>>},
      {<<Keys.from, Vals.KeyB>>, <<Keys.to, Vals.KeyA>>},
      {<<Keys.target, Vals.KeyB>>, <<Keys.relation, Vals.Pays>>},
      {<<Keys.source, Vals.KeyB>>, <<Keys.target, Vals.KeyAB>>, <<Keys.label, Vals.Pays>>, <<Keys.memo, Vals.ListAB>>,
       <<Keys.amount, IntV(100)>>} }

\* Query-result relationships: with properties; without a start node; plain.
Relationships ==
    { {<<Keys.type, Vals.Pays>>, <<Keys.startNode, Vals.KeyA>>, <<Keys.endNode, Vals.KeyB>>,
       <<Keys.properties, DictV({<<Keys.amount, IntV(100)>>})>>},
      {<<Keys.type, Vals.Knows>>, <<Keys.endNode, Vals.KeyB>>},
      {<<Keys.type, Vals.Knows>>, <<Keys.startNode, Vals.KeyB>>, <<Keys.endNode, Vals.KeyA>>} }

\* The records the claims name.
Recs ==
    [EdgeAttributed |-> {<<Keys.source, Vals.KeyA>>, <<Keys.target, Vals.KeyB>>, <<Keys.relation, Vals.Pays>>, <<Keys.amount, IntV(100)>>},
     EdgeSimple |-> {<<Keys.source, Vals.KeyA>>, <<Keys.target, Vals.KeyB>>, <<Keys.type, Vals.Knows>>},
     EdgeFromTo |-> {<<Keys.from, Vals.KeyB>>, <<Keys.to, Vals.KeyA>>},
     EdgeNoSource |-> {<<Keys.target, Vals.KeyB>>, <<Keys.relation, Vals.Pays>>},
     NodeA |-> {<<Keys.id, Vals.KeyA>>, <<Keys.labels, ListV(<<Vals.Person>>)>>},
     NodeB |-> {<<Keys.id, Vals.KeyB>>, <<Keys.label, Vals.Person>>, <<Keys.tags, Vals.ListAB>>}]

\* JSON graphs: nodes and an edge; an edge without a source before a good
\* one; a node, an attributed edge and a link.
JsonGraphs ==
    { [nodes |-> <<Recs.NodeA, Recs.NodeB>>, edges |-> <<Recs.EdgeSimple>>, links |-> <<>>],
      [nodes |-> <<>>, edges |-> <<Recs.EdgeNoSource, Recs.EdgeSimple>>, links |-> <<>>],
      [nodes |-> <<Recs.NodeA>>, edges |-> <<Recs.EdgeAttributed>>, links |-> <<Recs.EdgeFromTo>>] }

\* Query results: a record with a node and a relationship; a relationship
\* without a start node before a good one.
CypherResults ==
    { << << <<"n", DictV(Recs.NodeA)>>,
            <<"r", DictV({<<Keys.type, Vals.Pays>>, <<Keys.startNode, Vals.KeyA>>, <<Keys.endNode, Vals.KeyB>>,
                          <<Keys.properties, DictV({<<Keys.amount, IntV(100)>>})>>})>> >> >>,
      << << <<"r", DictV({<<Keys.type, Vals.Knows>>, <<Keys.endNode, Vals.KeyB>>})>> >>,
         << <<"r", DictV({<<Keys.type, Vals.Knows>>, <<Keys.startNode, Vals.KeyB>>, <<Keys.endNode, Vals.KeyA>>})>> >> >> }

Converter == [graph |-> graph, map |-> node_uri_map, ctr |-> edge_counter, calls |-> <<>>]

RECURSIVE FirstUris(_, _)
\* The history of first mints after the calls of one operation.
FirstUris(f, calls) ==
    IF calls = <<>> THEN f
    ELSE LET k == Head(calls)[1]
         IN FirstUris(IF k \in DOMAIN f THEN f ELSE f @@ (k :> Head(calls)[2]), Tail(calls))

\* The state after an operation op(arg) that leaves the converter as c.
Commit(op, arg, c, edges) ==
    /\ nops < MaxOps
    /\ nops' = nops + 1
    /\ graph' = c.graph
    /\ node_uri_map' = c.map
    /\ edge_counter' = c.ctr
    /\ first_uri' = FirstUris(first_uri, c.calls)
    /\ ingested' = IF op = "clear_graph" THEN {} ELSE ingested \cup edges
    /\ last' = [op |-> op, arg |-> arg, graph |-> graph, map |-> node_uri_map,
                ctr |-> edge_counter, keys |-> DOMAIN first_uri, seen |-> ingested,
                calls |-> c.calls]
    /\ UNCHANGED <<tvars, mvars, cvars, rvars>>

\* A GraphToRDFConverter after construction.
GraphStart ==
    /\ graph = {}
    /\ node_uri_map = <<>>
    /\ edge_counter = 0
    /\ first_uri = <<>>
    /\ ingested = {}
    /\ nops = 0
    /\ last = [op |-> "init", arg |-> {}, graph |-> {}, map |-> <<>>, ctr |-> 0,
               keys |-> {}, seen |-> {}, calls |-> <<>>]

\* A TextToRDFConverter after construction, use_llm as the constructor left it.
TextStart(use) ==
    /\ tgraph = {}
    /\ use_llm = use
    /\ tnops = 0
    /\ tlast = [op |-> "init", text |-> <<>>, method |-> "", outcome |-> "",
                graph |-> {}, result |-> TRUE]

\* No call of _merge_triples under way.
MergeIdle ==
    /\ rule_triples = <<>>
    /\ llm_triples = <<>>
    /\ merged = <<>>
    /\ merge_done = FALSE

\* No function called on its own.
CallIdle ==
    /\ call_args = <<>>
    /\ call_ret = <<>>
    /\ call_done = FALSE

\* An RDFConverterManager after construction.
ManagerStart ==
    /\ current_rdf = "None"
    /\ current_converter = "None"
    /\ rdf_ok = FALSE
    /\ mnops = 0
    /\ mlast = [op |-> "init", args |-> <<>>, ret |-> <<"n">>,
                before |-> [rdf |-> "None", converter |-> "None", ok |-> FALSE,
                            graph |-> {}, tgraph |-> {}]]

Init == GraphStart /\ TextStart(FALSE) /\ MergeIdle /\ CallIdle /\ ManagerStart

\* one pass of the nodes loop of _convert_json_graph_to_rdf
IngestNode ==
    \E n \in NodeRecords :
        Commit("add_node", n, AddNodes(Converter, <<n>>), {})

\* one pass of the edges loop of _convert_json_graph_to_rdf
IngestEdge ==
    \E e \in EdgeRecords :
        Commit("add_edge", e, AddEdges(Converter, <<e>>), {e})

IngestRelationship ==
    \E r \in Relationships :
        Commit("add_relationship", r, AddRelationshipToRdf(Converter, r), {})

\* convert_to_rdf(data, 'json_graph')
ConvertJsonGraph ==
    \E j \in JsonGraphs :
        Commit("convert_json", j, ConvertJsonGraphToRdf(Converter, j),
               Range(j.edges) \cup Range(j.links))

\* convert_to_rdf(data, 'cypher_result')
ConvertCypherResult ==
    \E r \in CypherResults :
        Commit("convert_cypher", r, ConvertCypherResultToRdf(Converter, r), {})

ClearGraph ==
    Commit("clear_graph", {}, ClearGraphOf(Converter), {})

Next ==
    \/ IngestNode
    \/ IngestEdge
    \/ IngestRelationship
    \/ ConvertJsonGraph
    \/ ConvertCypherResult
    \/ ClearGraph

Spec == Init /\ [][Next]_vars

-----------------------------------------------------------------------------
(* Claims about the graph session *)

EdgeSource(e) == Get(e, Keys.source, Get(e, Keys.from, NoneV))
EdgeTarget(e) == Get(e, Keys.target, Get(e, Keys.to, NoneV))

\* C1: identifier stability: every call that mints an identifier for a key
\* returns the identifier the first call for that key returned in the
\* session, whatever ingestions and clear_graph calls came between.
C1_IdentifierStability ==
    \A i \in 1..Len(last.calls) : last.calls[i][2] = first_uri[last.calls[i][1]]

\* A key minted before the store was cleared is minted again by an edge ingest.
C1_Witness ==
    /\ last.op = "add_edge"
    /\ last.graph = {}
    /\ \E i \in 1..Len(last.calls) : last.calls[i][1] \in last.keys

\* C2: attributed-edge idempotence: ingesting an attributed edge record that
\* was already ingested into the same store adds no statement.
C2_AttributedEdgeIdempotent ==
    (last.op = "add_edge" /\ EdgeProperties(last.arg) # {} /\ last.arg \in last.seen)
        => graph = last.graph

\* C3: reification shape: ingesting an attributed edge {A, B, R, k1=v1..kn=vn}
\* adds a new edge-node E with exactly the statements (E, type, R_Edge),
\* (E, hasSource, mint(A)), (E, hasTarget, mint(B)) and one (E, ki, vi) per
\* attribute (vi in its string form when it is not a string or a number).
C3_ReificationShape ==
    (last.op = "add_edge" /\ EdgeProperties(last.arg) # {}) =>
        LET e == last.arg
            E == create_uri(<<"e", "d", "g", "e", "_">> \o IntStr(last.ctr))
            R == PyStr(RelationType(e))
            lit(v) == IF IsPrimitive(v) THEN Lit(v) ELSE Lit(StrV(PyStr(v)))
            expected ==
                {<<E, RDF_type, create_uri(R \o <<"_", "E", "d", "g", "e">>)>>,
                 <<E, create_uri(<<"h", "a", "s", "S", "o", "u", "r", "c", "e">>),
                   first_uri[EdgeSource(e)]>>,
                 <<E, create_uri(<<"h", "a", "s", "T", "a", "r", "g", "e", "t">>),
                   first_uri[EdgeTarget(e)]>>}
                \cup {<<E, create_uri(SanitizeName(p[1])), lit(p[2])>>
                      : p \in {q \in e : q[1] \notin EdgeReservedKeys}}
        IN /\ \A st \in last.graph : st[1] # E
           /\ graph = last.graph \cup expected
           /\ Cardinality(expected) = 3 + Cardinality({q \in e : q[1] \notin EdgeReservedKeys})

\* {A, B, 'pays', amount: 100}: a node typed pays_Edge with hasSource=A,
\* hasTarget=B, amount=100.
C3_Witness ==
    /\ last.op = "add_edge"
    /\ last.arg = Recs.EdgeAttributed
    /\ {<<EdgeUri(last.ctr), RDF_type,
          create_uri(<<"p", "a", "y", "s", "_", "E", "d", "g", "e">>)>>,
        <<EdgeUri(last.ctr), hasSource, create_uri(<<"e", "n", "t", "i", "t", "y", "_", "A">>)>>,
        <<EdgeUri(last.ctr), hasTarget, create_uri(<<"e", "n", "t", "i", "t", "y", "_", "B">>)>>,
        <<EdgeUri(last.ctr), create_uri(Keys.amount), Lit(IntV(100))>>} \subseteq graph

\* C4: simple edge: ingesting an edge record with no key other than its
\* endpoints and relation name leaves the store as it was plus the one
\* statement (mint(source), relation, mint(target)), mints no edge-node and
\* leaves the edge counter unchanged.
C4_SimpleEdge ==
    (last.op = "add_edge"
     /\ \A q \in last.arg : q[1] \in {Keys.source, Keys.target, Keys.from, Keys.to,
                                       Keys.type, Keys.relation, Keys.label}) =>
        LET e == last.arg
            R == IF Has(e, Keys.type) THEN Get(e, Keys.type, NoneV)
                 ELSE IF Has(e, Keys.relation) THEN Get(e, Keys.relation, NoneV)
                 ELSE IF Has(e, Keys.label) THEN Get(e, Keys.label, NoneV)
                 ELSE StrV(<<"r", "e", "l", "a", "t", "e", "d", "T", "o">>)
        IN /\ graph = last.graph \cup {<<first_uri[EdgeSource(e)],
                                         create_uri(SanitizeName(PyStr(R))),
                                         first_uri[EdgeTarget(e)]>>}
           /\ edge_counter = last.ctr
           /\ \A st \in graph \ last.graph : st[2] # RDF_type

\* A simple edge is ingested into a store that did not hold its statement.
C4_Witness ==
    /\ last.op = "add_edge"
    /\ last.arg = Recs.EdgeSimple
    /\ Cardinality(graph) = Cardinality(last.graph) + 1
    /\ last.ctr > 0

\* C5: simple-edge round trip: each ingested simple edge A -R-> B is, after
\* extraction, exactly one edge with relation R between the nodes of A and
\* B, and every extracted node is an ingested entity (a minted key or a
\* reified edge-node), not a class or a vocabulary term.
C5_SimpleEdgeRoundTrip ==
    LET J == ConvertToJson(graph)
        minted == {node_uri_map[k] : k \in DOMAIN node_uri_map}
                  \cup {EdgeUri(i) : i \in 0..(edge_counter - 1)}
    IN (\E e \in ingested : EdgeProperties(e) = {}) =>
       /\ \A e \in ingested :
            (EdgeProperties(e) = {} /\ EdgeSource(e) # NoneV /\ EdgeTarget(e) # NoneV) =>
                Cardinality({x \in J.edges :
                                /\ x.source = GetNodeId(node_uri_map[EdgeSource(e)])
                                /\ x.target = GetNodeId(node_uri_map[EdgeTarget(e)])
                                /\ x.relation = PyStr(RelationType(e))}) = 1
       /\ \A n \in J.nodes : n.uri \in minted

\* C6: list fan-out: a node attribute whose value is a list of n distinct
\* elements adds exactly the n statements (node, attribute, element), and no
\* statement whose object is one literal of the whole list.
C6_ListFanOut ==
    last.op = "add_node" =>
        \A p \in {q \in last.arg : q[1] \notin {Keys.id, Keys.labels, Keys.label} /\ IsList(q[2])} :
            LET node == first_uri[Get(last.arg, Keys.id, Get(last.arg, Keys.name, NoneV))]
                prop == create_uri(SanitizeName(p[1]))
                perElement == {<<node, prop, Lit(x)>> : x \in Range(p[2][2])}
                added == {st \in graph \ last.graph : st[1] = node /\ st[2] = prop}
            IN /\ perElement \subseteq graph
               /\ added \subseteq perElement
               /\ Cardinality(perElement) = Cardinality(Range(p[2][2]))
               /\ <<node, prop, Lit(StrV(PyStr(p[2])))>> \notin graph
               /\ <<node, prop, Lit(p[2])>> \notin graph

\* ["a","b"] gives exactly two statements.
C6_Witness ==
    /\ last.op = "add_node"
    /\ last.arg = Recs.NodeB
    /\ Cardinality({st \in graph \ last.graph :
                       st[2] = create_uri(Keys.tags)}) = 2

\* C7: class declarations: every type statement (x, type, T) of the store,
\* other than a class declaration itself, has the declaration (T, type, Class).
C7_ClassDeclared ==
    \A st \in graph :
        (st[2] = RDF_type /\ st[3] # OWL_Class) => <<st[3], RDF_type, OWL_Class>> \in graph

\* C8: malformed edge records are skipped: a JSON graph is ingested as if the
\* edge records without a source or a target were not in it (no statement,
\* no identifier for them), the records after them being ingested.
C8_MalformedSkipped ==
    last.op = "convert_json" =>
        LET wellFormed(e) == EdgeSource(e) # NoneV /\ EdgeTarget(e) # NoneV
            j == last.arg
            c == ConvertJsonGraphToRdf(
                     [graph |-> last.graph, map |-> last.map, ctr |-> last.ctr, calls |-> <<>>],
                     [nodes |-> j.nodes, edges |-> SelectSeq(j.edges, wellFormed),
                      links |-> SelectSeq(j.links, wellFormed)])
        IN graph = c.graph /\ node_uri_map = c.map

-----------------------------------------------------------------------------
(* TextToRDFConverter: text_to_rdf.py.                                     *)
(* A text is the sequence of the tagger's tokens, [text, pos], with each   *)
(* sentence terminator a token of its own; an extracted triple is the      *)
(* record of the ExtractedTriple dataclass, its confidence in tenths.      *)

ExtractedTriple(s, p, o, conf, st, ot, rt) ==
    [subject |-> s, predicate |-> p, object |-> o, confidence |-> conf,
     subject_type |-> st, object_type |-> ot, relation_type |-> rt]

relation_types ==
    { <<<<"U62E5", "U6709">>, <<"o", "w", "n", "s">>>>,
      <<<<"U5DE5", "U4F5C", "U4E8E">>, <<"w", "o", "r", "k", "s", "A", "t">>>>,
      <<<<"U4F4D", "U4E8E">>, <<"l", "o", "c", "a", "t", "e", "d", "A", "t">>>>,
      <<<<"U53D1", "U751F", "U4E8E">>, <<"o", "c", "c", "u", "r", "r", "e", "d", "A", "t">>>>,
      <<<<"U53C2", "U4E0E">>, <<"p", "a", "r", "t", "i", "c", "i", "p", "a", "t", "e", "s", "I", "n">>>>,
      <<<<"U8F6C", "U8D26">>, <<"t", "r", "a", "n", "s", "f", "e", "r", "s", "T", "o">>>>,
      <<<<"U5173", "U8054">>, <<"r", "e", "l", "a", "t", "e", "d", "T", "o">>>>,
      <<<<"U63A7", "U5236">>, <<"c", "o", "n", "t", "r", "o", "l", "s">>>>,
      <<<<"U6295", "U8D44">>, <<"i", "n", "v", "e", "s", "t", "s">>>>,
      <<<<"U5408", "U4F5C">>, <<"c", "o", "o", "p", "e", "r", "a", "t", "e", "s", "W", "i", "t", "h">>>> }

\* one of 。 ！ ？ ；
IsSentenceEnd(tok) ==
    Len(tok.text) = 1 /\ tok.text[1] \in {"U3002", "UFF01", "UFF1F", "UFF1B"}

RECURSIVE SplitSentences(_, _)
\* re.split(r'[。！？；]', text): cur is the sentence being read.
SplitSentences(tokens, cur) ==
    IF tokens = <<>> THEN <<cur>>
    ELSE IF IsSentenceEnd(Head(tokens)) THEN <<cur>> \o SplitSentences(Tail(tokens), <<>>)
    ELSE SplitSentences(Tail(tokens), Append(cur, Head(tokens)))

\* The characters of a sentence.
SentenceText(words) == Concat([i \in 1..Len(words) |-> words[i].text])

\* not sentence.strip()
IsBlank(words) == \A i \in 1..Len(SentenceText(words)) : SentenceText(words)[i] = " "

EntityTypeOf(word, pos) ==
    IF pos \in {<<"n", "r">>, <<"n", "r", "f">>} THEN <<"P", "e", "r", "s", "o", "n">>
    ELSE IF pos \in {<<"n", "s">>, <<"n", "s", "f">>} THEN <<"L", "o", "c", "a", "t", "i", "o", "n">>
    ELSE IF pos \in {<<"n", "t">>, <<"n", "z">>}
        THEN <<"O", "r", "g", "a", "n", "i", "z", "a", "t", "i", "o", "n">>
    ELSE IF pos \in {<<"t">>} THEN <<"T", "i", "m", "e">>
    ELSE IF pos \in {<<"m">>, <<"m", "q">>} THEN <<"A", "m", "o", "u", "n", "t">>
    ELSE IF pos \in {<<"n">>, <<"n", "g">>, <<"n", "l">>} /\ Len(word) > 1
        THEN <<"E", "n", "t", "i", "t", "y">>
    ELSE <<>>

RECURSIVE ExtractEntities(_)
ExtractEntities(words) ==
    IF words = <<>> THEN <<>>
    ELSE LET w == Head(words)
             ty == EntityTypeOf(w.text, w.pos)
         IN (IF ty # <<>> THEN <<[text |-> w.text, type |-> ty, pos |-> w.pos]>> ELSE <<>>)
            \o ExtractEntities(Tail(words))

InRelationTypes(word) == \E r \in relation_types : r[1] = word

RelationTypeOf(word, pos) ==
    IF InRelationTypes(word)
        THEN <<"P", "r", "e", "d", "e", "f", "i", "n", "e", "d", "R", "e", "l", "a", "t", "i", "o", "n">>
    ELSE IF pos # <<>> /\ pos[1] = "v" THEN <<"A", "c", "t", "i", "o", "n">>
    ELSE IF pos \in {<<"p">>} THEN <<"P", "r", "e", "p", "o", "s", "i", "t", "i", "o", "n">>
    ELSE IF pos \in {<<"c">>} THEN <<"C", "o", "n", "j", "u", "n", "c", "t", "i", "o", "n">>
    ELSE <<>>

RECURSIVE ExtractRelations(_)
ExtractRelations(words) ==
    IF words = <<>> THEN <<>>
    ELSE LET w == Head(words)
             ty == RelationTypeOf(w.text, w.pos)
         IN (IF ty # <<>> THEN <<[text |-> w.text, type |-> ty, pos |-> w.pos]>> ELSE <<>>)
            \o ExtractRelations(Tail(words))

\* str.find: the least 0-based offset of sub in s, -1 when there is none.
Find(s, sub) ==
    LET hits == {i \in 0..(Len(s) - Len(sub)) : SubSeq(s, i + 1, i + Len(sub)) = sub}
    IN IF hits = {} THEN -1 ELSE CHOOSE i \in hits : \A j \in hits : i <= j

\* The relation chosen for a pair: the first whose offset lies strictly
\* between the offsets of the two entities, else relations[0].
BestRelation(relations, sentence, subject_entity, object_entity) ==
    LET subject_pos == Find(sentence, subject_entity.text)
        object_pos == Find(sentence, object_entity.text)
        between == {k \in 1..Len(relations) :
                       /\ subject_pos < Find(sentence, relations[k].text)
                       /\ Find(sentence, relations[k].text) < object_pos}
    IN IF between = {} THEN relations[1]
       ELSE relations[CHOOSE k \in between : \A m \in between : k <= m]

RECURSIVE EntityPairs(_, _, _)
\* The pairs (i, j), i < j, in the order of the two nested loops (1-based).
EntityPairs(i, j, n) ==
    IF i >= n THEN <<>>
    ELSE IF j > n THEN EntityPairs(i + 1, i + 2, n)
    ELSE <<<<i, j>>>> \o EntityPairs(i, j + 1, n)

Canonical_SurfaceText(predicate) == predicate

Canonical(predicate) ==
    IF InRelationTypes(predicate) THEN (CHOOSE r \in relation_types : r[1] = predicate)[2]
    ELSE predicate

BuildTriplesFromEntitiesRelations(entities, relations, sentence) ==
    IF Len(entities) >= 2 /\ Len(relations) >= 1
    THEN LET pairs == EntityPairs(1, 2, Len(entities))
         IN [k \in 1..Len(pairs) |->
                LET subject_entity == entities[pairs[k][1]]
                    object_entity == entities[pairs[k][2]]
                    best_relation ==
                        BestRelation(relations, sentence, subject_entity, object_entity)
                IN ExtractedTriple(subject_entity.text, Canonical(best_relation.text),
                                   object_entity.text, 6, subject_entity.type,
                                   object_entity.type, best_relation.type)]
    ELSE <<>>

RECURSIVE ExtractSentences(_)
ExtractSentences(sentences) ==
    IF sentences = <<>> THEN <<>>
    ELSE LET words == Head(sentences)
         IN (IF IsBlank(words) THEN <<>>
             ELSE BuildTriplesFromEntitiesRelations(ExtractEntities(words),
                      ExtractRelations(words), SentenceText(words)))
            \o ExtractSentences(Tail(sentences))

ExtractTriplesWithRules(text) == ExtractSentences(SplitSentences(text, <<>>))

SameStatement(x, y) ==
    x.subject = y.subject /\ x.predicate = y.predicate /\ x.object = y.object

RECURSIVE AppendNew(_, _)
\* The second loop of _merge_triples: each rule triple is appended unless a
\* triple already in the list has its subject, predicate and object.
AppendNew(acc, rules) ==
    IF rules = <<>> THEN acc
    ELSE AppendNew(IF \E k \in 1..Len(acc) : SameStatement(Head(rules), acc[k])
                   THEN acc ELSE Append(acc, Head(rules)),
                   Tail(rules))

MergeTriples_NoDuplicateTest(rules, llms) == llms \o rules

MergeTriples(rules, llms) == AppendNew(llms, rules)

Digits == {"0", "1", "2", "3", "4", "5", "6", "7", "8", "9"}

IsDigitAt(s, i) == i <= Len(s) /\ s[i] \in Digits

IsSepAt(s, i, seps) == i <= Len(s) /\ s[i] \in seps

\* value.replace('.', '').replace('-', '').isdigit()
IsNumber(value) ==
    LET kept == SelectSeq(value, LAMBDA ch : ch \notin {".", "-"})
    IN kept # <<>> /\ \A i \in 1..Len(kept) : kept[i] \in Digits

\* re.match(r'\d{4}[-/]\d{1,2}[-/]\d{1,2}', value)
MatchesDate(value) ==
    /\ \A i \in 1..4 : IsDigitAt(value, i)
    /\ IsSepAt(value, 5, {"-", "/"})
    /\ IsDigitAt(value, 6)
    /\ \/ IsSepAt(value, 7, {"-", "/"}) /\ IsDigitAt(value, 8)
       \/ IsDigitAt(value, 7) /\ IsSepAt(value, 8, {"-", "/"}) /\ IsDigitAt(value, 9)

\* re.match(r'\d{1,2}:\d{2}', value)
MatchesTime(value) ==
    \/ IsDigitAt(value, 1) /\ IsSepAt(value, 2, {":"})
       /\ IsDigitAt(value, 3) /\ IsDigitAt(value, 4)
    \/ IsDigitAt(value, 1) /\ IsDigitAt(value, 2) /\ IsSepAt(value, 3, {":"})
       /\ IsDigitAt(value, 4) /\ IsDigitAt(value, 5)

\* 公 司 组 织 机 构
InstitutionChars == {"U516C", "U53F8", "U7EC4", "U7EC7", "U673A", "U6784"}

ShortTextLen == 10

IsLiteral(value) ==
    \/ IsNumber(value)
    \/ MatchesDate(value)
    \/ MatchesTime(value)
    \/ Len(value) < ShortTextLen /\ \A i \in 1..Len(value) : value[i] \notin InstitutionChars

\* The vocabulary of a statement node: kg:Statement, kg:hasSubject,
\* kg:hasPredicate, kg:hasObject, kg:confidence.
StatementVocabulary ==
    [Statement |-> create_uri(<<"S", "t", "a", "t", "e", "m", "e", "n", "t">>),
     hasSubject |-> create_uri(<<"h", "a", "s", "S", "u", "b", "j", "e", "c", "t">>),
     hasPredicate |-> create_uri(<<"h", "a", "s", "P", "r", "e", "d", "i", "c", "a", "t", "e">>),
     hasObject |-> create_uri(<<"h", "a", "s", "O", "b", "j", "e", "c", "t">>),
     confidence |-> create_uri(<<"c", "o", "n", "f", "i", "d", "e", "n", "c", "e">>)]

\* A slip: the statement node is not numbered by the size of the store.
StatementUri_Unnumbered(n) == create_uri(<<"s", "t", "a", "t", "e", "m", "e", "n", "t", "_">>)

StatementUri(n) == create_uri(<<"s", "t", "a", "t", "e", "m", "e", "n", "t", "_">> \o IntStr(n))

\* The store g after _add_triple_to_rdf(triple).
AddTripleToRdf(g, triple) ==
    LET subject_uri == create_uri(SanitizeName(triple.subject))
        predicate_uri == create_uri(SanitizeName(triple.predicate))
        literal == IsLiteral(triple.object)
        object_node == IF literal THEN Lit(StrV(triple.object))
                       ELSE create_uri(SanitizeName(triple.object))
        subject_class_uri == create_uri(triple.subject_type)
        object_class_uri == create_uri(triple.object_type)
        g1 == g \cup {<<subject_uri, predicate_uri, object_node>>,
                      <<subject_uri, RDF_type, subject_class_uri>>}
                \cup add_class(subject_class_uri, StrV(triple.subject_type))
                \cup (IF literal THEN {}
                      ELSE {<<object_node, RDF_type, object_class_uri>>}
                           \cup add_class(object_class_uri, StrV(triple.object_type)))
                \cup {<<subject_uri, RDFS_label, LitZh(StrV(triple.subject))>>}
                \cup (IF literal THEN {}
                      ELSE {<<object_node, RDFS_label, LitZh(StrV(triple.object))>>})
        statement_uri == StatementUri(Cardinality(g1))
    IN IF triple.confidence > 0
       THEN g1 \cup {<<statement_uri, RDF_type, StatementVocabulary.Statement>>,
                     <<statement_uri, StatementVocabulary.hasSubject, subject_uri>>,
                     <<statement_uri, StatementVocabulary.hasPredicate, predicate_uri>>,
                     <<statement_uri, StatementVocabulary.hasObject, object_node>>,
                     <<statement_uri, StatementVocabulary.confidence, Lit(<<"f", triple.confidence>>)>>}
       ELSE g1

RECURSIVE AddTriples(_, _)
\* for triple in triples: self._add_triple_to_rdf(triple)
AddTriples(g, triples) ==
    IF triples = <<>> THEN g ELSE AddTriples(AddTripleToRdf(g, Head(triples)), Tail(triples))

\* _extract_triples_with_llm: the triples of the reply when the call succeeds
\* with a parsable reply; [] when the reply reports success = false, when the
\* call raises, and when there is no client.
ExtractTriplesWithLlm(use, outcome, reply) ==
    IF use /\ outcome = "ok" THEN reply ELSE <<>>

\* The triples convert_to_rdf extracts before it adds them to the store.
SelectTriples(use, text, method, outcome, reply) ==
    IF method = "llm" /\ use THEN ExtractTriplesWithLlm(use, outcome, reply)
    ELSE IF method = "rule" THEN ExtractTriplesWithRules(text)
    ELSE IF method = "hybrid"
        THEN IF use THEN MergeTriples(ExtractTriplesWithRules(text),
                                      ExtractTriplesWithLlm(use, outcome, reply))
             ELSE ExtractTriplesWithRules(text)
    ELSE ExtractTriplesWithRules(text)

\* The store after TextToRDFConverter.convert_to_rdf(text, method).
TextConvertToRdf(g, use, text, method, outcome, reply) ==
    AddTriples(g, SelectTriples(use, text, method, outcome, reply))

-----------------------------------------------------------------------------
(* The session of one TextToRDFConverter: inputs and operations *)

Tok(text, pos) == [text |-> text, pos |-> pos]

\* The words of the texts: 张三, 李四, 工作于, 投资, 北京科技公司, 。
Words ==
    [ZhangSan |-> <<"U5F20", "U4E09">>,
     LiSi |-> <<"U674E", "U56DB">>,
     WorksAt |-> <<"U5DE5", "U4F5C", "U4E8E">>,
     Invests |-> <<"U6295", "U8D44">>,
     Company |-> <<"U5317", "U4EAC", "U79D1", "U6280", "U516C", "U53F8">>,
     Stop |-> <<"U3002">>]

\* The type and predicate names of the candidates.
Names ==
    [Person |-> <<"P", "e", "r", "s", "o", "n">>,
     Company |-> <<"C", "o", "m", "p", "a", "n", "y">>,
     Organization |-> <<"O", "r", "g", "a", "n", "i", "z", "a", "t", "i", "o", "n">>,
     Employment |-> <<"E", "m", "p", "l", "o", "y", "m", "e", "n", "t">>,
     Predefined |-> <<"P", "r", "e", "d", "e", "f", "i", "n", "e", "d",
                      "R", "e", "l", "a", "t", "i", "o", "n">>,
     worksAt |-> <<"w", "o", "r", "k", "s", "A", "t">>,
     invests |-> <<"i", "n", "v", "e", "s", "t", "s">>]

\* one sentence, one pair of entities
TextWorks == <<Tok(Words.ZhangSan, <<"n", "r">>), Tok(Words.WorksAt, <<"v">>), Tok(Words.Company, <<"n", "t">>)>>

\* the same sentence twice
TextTwice == TextWorks \o <<Tok(Words.Stop, <<"x">>)>> \o TextWorks

\* one sentence, three entities, the relation after the second
TextThree == <<Tok(Words.ZhangSan, <<"n", "r">>), Tok(Words.LiSi, <<"n", "r">>),
               Tok(Words.Invests, <<"v">>), Tok(Words.Company, <<"n", "t">>)>>

Texts == {TextWorks, TextTwice, TextThree}

Methods == {"llm", "rule", "hybrid", "auto"}

\* What the chat completion does when it is called: raises, reports
\* success = false, or succeeds with a parsable reply.
LlmOutcomes == {"raise", "fail", "ok"}

\* the triples of the reply of a successful call
LlmReply == <<ExtractedTriple(Words.ZhangSan, Words.WorksAt, Words.Company, 9,
                              Names.Person, Names.Company, Names.Employment)>>

\* convert_to_rdf(text, method); without a client no call is made.
TextConvert ==
    /\ tnops < MaxTextOps
    /\ \E text \in Texts, method \in Methods,
          outcome \in (IF use_llm THEN LlmOutcomes ELSE {"unavailable"}) :
          /\ tgraph' = TextConvertToRdf(tgraph, use_llm, text, method, outcome, LlmReply)
          /\ tlast' = [op |-> "convert_to_rdf", text |-> text, method |-> method,
                       outcome |-> outcome, graph |-> tgraph, result |-> TRUE]
    /\ tnops' = tnops + 1
    /\ UNCHANGED <<use_llm, gvars, mvars, cvars, rvars>>

InitText ==
    GraphStart /\ (\E use \in BOOLEAN : TextStart(use)) /\ MergeIdle /\ CallIdle /\ ManagerStart

NextText == TextConvert

SpecText == InitText /\ [][NextText]_vars

-----------------------------------------------------------------------------
(* _merge_triples on its own: any two short lists of candidates *)

MergeCandidates ==
    { ExtractedTriple(Words.ZhangSan, Names.worksAt, Words.Company, 6, Names.Person, Names.Organization, Names.Predefined),
      ExtractedTriple(Words.ZhangSan, Names.worksAt, Words.Company, 9, Names.Person, Names.Company, Names.Employment),
      ExtractedTriple(Words.ZhangSan, Names.invests, Words.Company, 6, Names.Person, Names.Organization, Names.Predefined),
      ExtractedTriple(Words.LiSi, Names.worksAt, Words.Company, 8, Names.Person, Names.Company, Names.Employment) }

CandidateLists == UNION {[1..n -> MergeCandidates] : n \in 0..MaxMergeLen}

Merge ==
    /\ ~merge_done
    /\ merged' = MergeTriples(rule_triples, llm_triples)
    /\ merge_done' = TRUE
    /\ UNCHANGED <<rule_triples, llm_triples, gvars, tvars, cvars, rvars>>

InitMerge ==
    /\ GraphStart
    /\ TextStart(FALSE)
    /\ rule_triples \in CandidateLists
    /\ llm_triples \in CandidateLists
    /\ merged = <<>>
    /\ merge_done = FALSE
    /\ CallIdle
    /\ ManagerStart

NextMerge == Merge

SpecMerge == InitMerge /\ [][NextMerge]_vars

-----------------------------------------------------------------------------
(* Claims about the text session *)

\* C9: when the model is unavailable at construction, or a call to it
\* reports success = false or raises, convert_to_rdf does not raise and the
\* store is the one rule-based extraction of the text would have produced.
C9_RuleBasedFallback ==
    (tlast.op = "convert_to_rdf" /\ tlast.outcome \in {"unavailable", "fail", "raise"})
        => /\ tlast.result \in BOOLEAN
           /\ tgraph = AddTriples(tlast.graph, ExtractTriplesWithRules(tlast.text))

\* The rule candidates that survive a merge: those no model candidate and no
\* earlier rule candidate makes the same statement as.
KeptRules ==
    {i \in 1..Len(rule_triples) :
        /\ \A k \in 1..Len(llm_triples) :
              ~(/\ rule_triples[i].subject = llm_triples[k].subject
                /\ rule_triples[i].predicate = llm_triples[k].predicate
                /\ rule_triples[i].object = llm_triples[k].object)
        /\ \A j \in 1..(i - 1) :
              ~(/\ rule_triples[i].subject = rule_triples[j].subject
                /\ rule_triples[i].predicate = rule_triples[j].predicate
                /\ rule_triples[i].object = rule_triples[j].object)}

\* C10: the merged list is the model's candidates verbatim and in order,
\* followed by each rule candidate, in order, whose (subject, predicate,
\* object) equals that of no candidate already in the list; confidence and
\* types play no part, and of a model candidate and a rule candidate making
\* the same statement only the model candidate is in the list.
C10_MergeTriples ==
    merge_done =>
        /\ Len(merged) = Len(llm_triples) + Cardinality(KeptRules)
        /\ \A k \in 1..Len(llm_triples) : merged[k] = llm_triples[k]
        /\ \A i \in KeptRules :
              merged[Len(llm_triples) + Cardinality({j \in KeptRules : j <= i})]
                  = rule_triples[i]

C10_Witness ==
    /\ merge_done
    /\ Len(llm_triples) = 1 /\ llm_triples[1].confidence = 9
    /\ Len(rule_triples) = 2
    /\ rule_triples[1].confidence = 6
    /\ rule_triples[1].subject = llm_triples[1].subject
    /\ rule_triples[1].predicate = llm_triples[1].predicate
    /\ rule_triples[1].object = llm_triples[1].object
    /\ rule_triples[1] # llm_triples[1]
    /\ merged = <<llm_triples[1], rule_triples[2]>>
    /\ rule_triples[2].predicate = Names.invests

-----------------------------------------------------------------------------
(* _extract_triples_with_rules on its own: any short tagged text *)

TokenAlphabet ==
    { Tok(Words.ZhangSan, <<"n", "r">>), Tok(Words.LiSi, <<"n", "r">>),
      Tok(Words.WorksAt, <<"v">>), Tok(Words.Invests, <<"v">>),
      Tok(Words.Invests, <<"n">>), Tok(Words.Company, <<"n", "t">>),
      Tok(Words.Stop, <<"x">>) }

TaggedTexts == UNION {[1..n -> TokenAlphabet] : n \in 0..MaxTextLen}

ExtractRules ==
    /\ ~call_done
    /\ call_ret' = ExtractTriplesWithRules(call_args)
    /\ call_done' = TRUE
    /\ UNCHANGED <<call_args, gvars, tvars, mvars, rvars>>

InitRules ==
    /\ GraphStart /\ TextStart(FALSE) /\ MergeIdle /\ ManagerStart
    /\ call_args \in TaggedTexts
    /\ call_ret = <<>>
    /\ call_done = FALSE

SpecRules == InitRules /\ [][ExtractRules]_vars

\* The tags _extract_entities reads as an entity (a common noun of one
\* character is none) and the surface texts of the relation table.
EntityTagged(tok) ==
    \/ tok.pos \in {<<"n", "r">>, <<"n", "r", "f">>, <<"n", "s">>, <<"n", "s", "f">>,
                    <<"n", "t">>, <<"n", "z">>, <<"t">>, <<"m">>, <<"m", "q">>}
    \/ tok.pos \in {<<"n">>, <<"n", "g">>, <<"n", "l">>} /\ Len(tok.text) > 1

PredefinedSurface(tok) == tok.text \in {r[1] : r \in relation_types}

-----------------------------------------------------------------------------
(* _add_triple_to_rdf on its own: one candidate into an empty store, its   *)
(* object any string composed of a few segments                            *)

\* 2024, -01, -05, 12, :30, abcdefg, 北京科技公司
ObjectSegments ==
    { <<"2", "0", "2", "4">>, <<"-", "0", "1">>, <<"-", "0", "5">>, <<"1", "2">>,
      <<":", "3", "0">>, <<"a", "b", "c", "d", "e", "f", "g">>, Words.Company }

ObjectStrings == {Concat(segs) : segs \in UNION {[1..n -> ObjectSegments] : n \in 0..MaxSegments}}

AddTriple ==
    /\ ~call_done
    /\ call_ret' = AddTripleToRdf({}, call_args)
    /\ call_done' = TRUE
    /\ UNCHANGED <<call_args, gvars, tvars, mvars, rvars>>

InitAddTriple ==
    /\ GraphStart /\ TextStart(FALSE) /\ MergeIdle /\ ManagerStart
    /\ \E o \in ObjectStrings :
          call_args = ExtractedTriple(Words.ZhangSan, Names.worksAt, o, 6,
                                      Names.Person, Names.Organization, Names.Predefined)
    /\ call_ret = <<>>
    /\ call_done = FALSE

SpecAddTriple == InitAddTriple /\ [][AddTriple]_vars

\* A pure number: an optional sign, then digits with at most one decimal point.
PureNumber(s) ==
    LET body == IF s # <<>> /\ s[1] = "-" THEN Tail(s) ELSE s
    IN /\ \E i \in 1..Len(body) : body[i] \in Digits
       /\ \A i \in 1..Len(body) : body[i] \in Digits \cup {"."}
       /\ Cardinality({i \in 1..Len(body) : body[i] = "."}) <= 1

\* C12: a candidate's object is stored as a literal, with no identifier,
\* type statement or label minted for it, if and only if the object string
\* is a pure number, matches the date pattern, matches the clock-time
\* pattern, or is shorter than the length threshold and has no institution
\* marker character; otherwise the object gets a minted identifier, a type
\* statement and a label.
C12_LiteralOrEntity ==
    call_done =>
        LET o == call_args.object
            s == create_uri(SanitizeName(call_args.subject))
            p == create_uri(SanitizeName(call_args.predicate))
            e == create_uri(SanitizeName(o))
            literal == \/ PureNumber(o)
                       \/ MatchesDate(o)
                       \/ MatchesTime(o)
                       \/ /\ Len(o) < ShortTextLen
                          /\ \A i \in 1..Len(o) : o[i] \notin InstitutionChars
        IN IF literal
           THEN /\ <<s, p, Lit(StrV(o))>> \in call_ret
                /\ \A st \in call_ret : st[1] # e /\ st[3] # e
           ELSE /\ <<s, p, e>> \in call_ret
                /\ <<e, RDF_type, create_uri(call_args.object_type)>> \in call_ret
                /\ <<e, RDFS_label, LitZh(StrV(o))>> \in call_ret
                /\ <<s, p, Lit(StrV(o))>> \notin call_ret

-----------------------------------------------------------------------------
(* RDFConverterManager: converter_manager.py.                              *)
(* A manager state m is [rdf, converter, ok, c, tgraph]: current_rdf,      *)
(* current_converter, the history flag, the state of its                   *)
(* GraphToRDFConverter and the store of its TextToRDFConverter.            *)
(* current_rdf is the converter's store object itself, so it is named by   *)
(* the converter that owns it.  An operation returns [ret, m], ret a       *)
(* tagged value: <<"b", bool>>, <<"n">> None, <<"s", chars>> a str,        *)
(* <<"json", graph>>, <<"out", format, store>> another rendering,          *)
(* <<"rows", statements>> query rows, <<"map", results>> a result map.     *)

\* The format strings of the sessions.
Formats ==
    [text |-> <<"t", "e", "x", "t">>,
     graph_networkx |-> <<"g", "r", "a", "p", "h", "_", "n", "e", "t", "w", "o", "r", "k", "x">>,
     graph_json |-> <<"g", "r", "a", "p", "h", "_", "j", "s", "o", "n">>,
     graph_cypher |-> <<"g", "r", "a", "p", "h", "_", "c", "y", "p", "h", "e", "r">>,
     excel |-> <<"e", "x", "c", "e", "l">>,
     invalid_format |-> <<"i", "n", "v", "a", "l", "i", "d", "_", "f", "o", "r", "m", "a", "t">>,
     graph_foo |-> <<"g", "r", "a", "p", "h", "_", "f", "o", "o">>,
     text_foo |-> <<"t", "e", "x", "t", "_", "f", "o", "o">>,
     text_summary |-> <<"t", "e", "x", "t", "_", "s", "u", "m", "m", "a", "r", "y">>,
     graph_edgelist |-> <<"g", "r", "a", "p", "h", "_", "e", "d", "g", "e", "l", "i", "s", "t">>]

\* The names the dispatchers compare with.
Lits ==
    [auto |-> <<"a", "u", "t", "o">>,
     networkx |-> <<"n", "e", "t", "w", "o", "r", "k", "x">>,
     cypher_result |-> <<"c", "y", "p", "h", "e", "r", "_", "r", "e", "s", "u", "l", "t">>,
     json_graph |-> <<"j", "s", "o", "n", "_", "g", "r", "a", "p", "h">>,
     excel |-> <<"e", "x", "c", "e", "l">>,
     json |-> <<"j", "s", "o", "n">>,
     edgelist |-> <<"e", "d", "g", "e", "l", "i", "s", "t">>,
     narrative |-> <<"n", "a", "r", "r", "a", "t", "i", "v", "e">>,
     summary |-> <<"s", "u", "m", "m", "a", "r", "y">>,
     report |-> <<"r", "e", "p", "o", "r", "t">>,
     qa |-> <<"q", "a">>,
     structured |-> <<"s", "t", "r", "u", "c", "t", "u", "r", "e", "d">>,
     cypher |-> <<"c", "y", "p", "h", "e", "r">>,
     gexf |-> <<"g", "e", "x", "f">>,
     graphml |-> <<"g", "r", "a", "p", "h", "m", "l">>,
     adjacency |-> <<"a", "d", "j", "a", "c", "e", "n", "c", "y">>]

\* str.startswith
StartsWith(s, prefix) == Len(s) >= Len(prefix) /\ SubSeq(s, 1, Len(prefix)) = prefix

RECURSIVE LastPart(_)
\* s.split('_')[-1]
LastPart(s) ==
    IF \A i \in 1..Len(s) : s[i] # "_" THEN s
    ELSE LastPart(Tail(s))

\* s.split('_', 1)[1] if '_' in s else dflt
RestOr(s, dflt) ==
    IF \A i \in 1..Len(s) : s[i] # "_" THEN dflt
    ELSE LET k == CHOOSE i \in 1..Len(s) : s[i] = "_" /\ \A j \in 1..(i - 1) : s[j] # "_"
         IN SubSeq(s, k + 1, Len(s))

RECURSIVE NxNodes(_, _)
\* for node_id, node_data in graph.nodes(data=True)
NxNodes(c, nodes) ==
    IF nodes = <<>> THEN c
    ELSE NxNodes(AddNodeToRdf(c, Head(nodes)[1], Head(nodes)[2]), Tail(nodes))

RECURSIVE NxEdges(_, _)
\* for source, target, edge_data in graph.edges(data=True)
NxEdges(c, edges) ==
    IF edges = <<>> THEN c
    ELSE NxEdges(AddEdgeToRdf(c, Head(edges)[1], Head(edges)[2], Head(edges)[3]), Tail(edges))

\* GraphToRDFConverter.convert_to_rdf(data, data_type): [ok, c].  data is
\* <<shape, value>>; a value of another shape than the routine reads makes
\* the routine raise before it adds anything, which convert_to_rdf catches.
GraphConvertToRdf(c, data, data_type) ==
    IF data_type = Lits.networkx
    THEN IF data[1] = "nx"
         THEN [ok |-> TRUE, c |-> NxEdges(NxNodes(c, data[2].nodes), data[2].edges)]
         ELSE [ok |-> FALSE, c |-> c]
    ELSE IF data_type = Lits.cypher_result
    THEN IF data[1] = "cypher"
         THEN [ok |-> TRUE, c |-> ConvertCypherResultToRdf(c, data[2])]
         ELSE [ok |-> FALSE, c |-> c]
    ELSE IF data_type = Lits.json_graph
    THEN IF data[1] = "json"
         THEN [ok |-> TRUE, c |-> ConvertJsonGraphToRdf(c, data[2])]
         ELSE [ok |-> FALSE, c |-> c]
    ELSE [ok |-> FALSE, c |-> c]

\* The extraction_method a string selects in TextToRDFConverter.convert_to_rdf.
MethodOf(name) ==
    IF name = <<"l", "l", "m">> THEN "llm"
    ELSE IF name = <<"r", "u", "l", "e">> THEN "rule"
    ELSE IF name = <<"h", "y", "b", "r", "i", "d">> THEN "hybrid"
    ELSE "auto"

\* TextToRDFConverter.convert_to_rdf(data, method) of a converter built
\* without a model: [ok, g].  re.split raises on a value that is no str.
TextConverterConvertToRdf(g, data, method) ==
    IF data[1] = "text"
    THEN [ok |-> TRUE,
          g |-> TextConvertToRdf(g, FALSE, data[2], MethodOf(method), "unavailable", <<>>)]
    ELSE [ok |-> FALSE, g |-> g]

\* convert_from_rdf falling back to the networkx output for a name it does
\* not know.
RdfToGraphConvertFromRdf_DefaultNetworkx(g, target_format) ==
    IF target_format = Lits.json THEN <<"json", ConvertToJson(g)>>
    ELSE <<"out", Lits.networkx, g>>

\* RDFToGraphConverter.convert_from_rdf(target_format) on the store g.
RdfToGraphConvertFromRdf(g, target_format) ==
    IF target_format = Lits.json THEN <<"json", ConvertToJson(g)>>
    ELSE IF target_format \in {Lits.networkx, Lits.cypher, Lits.gexf, Lits.graphml,
                               Lits.edgelist, Lits.adjacency}
    THEN <<"out", target_format, g>>
    ELSE <<"n">>

\* RDFToTextConverter.convert_from_rdf(target_format) on the store g.
RdfToTextConvertFromRdf(g, target_format) ==
    IF target_format \in {Lits.narrative, Lits.summary, Lits.report, Lits.qa, Lits.structured}
    THEN <<"out", target_format, g>>
    ELSE <<"s", <<>>>>

\* The store current_rdf is.
CurrentStore(m) == IF m.rdf = "graph" THEN m.c.graph ELSE m.tgraph

\* RDFConverterManager.convert_to_rdf(data, source_format, output_file).
\* With an output file the manager calls converter.save_rdf, a method no
\* converter defines: the AttributeError is caught and False returned, after
\* current_rdf and current_converter were set.
ManagerConvertToRdf(m, data, source_format, output_file) ==
    LET converter == IF StartsWith(source_format, Formats.text) THEN "text"
                     ELSE IF StartsWith(source_format, <<"g", "r", "a", "p", "h">>) THEN "graph"
                     ELSE "None"
        data_type == IF \E i \in 1..Len(source_format) : source_format[i] = "_"
                     THEN LastPart(source_format) ELSE Lits.auto
        rt == TextConverterConvertToRdf(m.tgraph, data, data_type)
        rg == GraphConvertToRdf(m.c, data, data_type)
        success == IF converter = "text" THEN rt.ok ELSE rg.ok
        m1 == IF converter = "text" THEN [m EXCEPT !.tgraph = rt.g] ELSE [m EXCEPT !.c = rg.c]
        m2 == [m1 EXCEPT !.rdf = converter, !.converter = converter]
    IN IF converter = "None" THEN [ret |-> <<"b", FALSE>>, m |-> m]
       ELSE IF ~success THEN [ret |-> <<"b", FALSE>>, m |-> m1]
       ELSE IF output_file # "None" THEN [ret |-> <<"b", FALSE>>, m |-> m2]
       ELSE [ret |-> <<"b", TRUE>>, m |-> [m2 EXCEPT !.ok = TRUE]]

\* RDFConverterManager.convert_from_rdf(target_format, rdf_file).  With an
\* rdf_file the manager calls converter.load_rdf, a method no converter
\* defines: the AttributeError is caught and None returned.
ManagerConvertFromRdf(m, target_format, rdf_file) ==
    IF rdf_file # "None" THEN [ret |-> <<"n">>, m |-> m]
    ELSE IF m.rdf = "None" THEN [ret |-> <<"n">>, m |-> m]
    ELSE IF StartsWith(target_format, Formats.text)
    THEN [ret |-> RdfToTextConvertFromRdf(CurrentStore(m), RestOr(target_format, Lits.narrative)),
          m |-> m]
    ELSE [ret |-> RdfToGraphConvertFromRdf(CurrentStore(m), RestOr(target_format, Lits.networkx)),
          m |-> m]

\* RDFConverterManager.query_rdf of a query selecting every statement.
ManagerQueryRdf(m) ==
    IF m.converter = "None" THEN [ret |-> <<"rows", {}>>, m |-> m]
    ELSE [ret |-> <<"rows", IF m.converter = "graph" THEN m.c.graph ELSE m.tgraph>>,
          m |-> m]

\* RDFConverterManager.save_current_rdf(file_path): without a converter
\* False; with one, current_converter.save_rdf raises AttributeError, which
\* is caught, and False is returned.
ManagerSaveCurrentRdf(m) == [ret |-> <<"b", FALSE>>, m |-> m]

\* RDFConverterManager.load_rdf_from_file(file_path): text_to_rdf.load_rdf
\* raises AttributeError, which is caught, and False is returned.
ManagerLoadRdfFromFile(m) == [ret |-> <<"b", FALSE>>, m |-> m]

\* RDFConverterManager.clear_rdf()
ManagerClearRdf(m) ==
    LET m1 == IF m.converter = "graph" THEN [m EXCEPT !.c = ClearGraphOf(m.c)]
              ELSE IF m.converter = "text" THEN [m EXCEPT !.tgraph = {}]
              ELSE m
    IN [ret |-> <<"n">>, m |-> [m1 EXCEPT !.rdf = "None", !.converter = "None", !.ok = FALSE]]

\* RDFConverterManager.convert_direct(data, source_format, target_format)
ManagerConvertDirect(m, data, source_format, target_format) ==
    CHOOSE out \in
        {IF ~r1.ret[2] THEN [ret |-> <<"n">>, m |-> r1.m]
         ELSE ManagerConvertFromRdf(r1.m, target_format, "None") :
             r1 \in {ManagerConvertToRdf(m, data, source_format, "None")}} :
        TRUE

RECURSIVE BatchLoop(_, _, _, _, _, _)
\* RDFConverterManager.batch_convert(input_dir, output_dir, source_format,
\* target_format): its loop over the files from the i-th on; file i is
\* named i.  A file that cannot be read or parsed (<<"bad">>) raises, and
\* the except clause records False for it.
BatchLoop(m, files, i, source_format, target_format, results) ==
    IF i > Len(files) THEN [ret |-> <<"map", results>>, m |-> m]
    ELSE CHOOSE out \in
             {BatchLoop(r.m, files, i + 1, source_format, target_format,
                        {e \in results : e[1] # i} \cup {<<i, r.ret[1] # "n">>}) :
                 r \in {IF files[i][1] = "bad" THEN [ret |-> <<"n">>, m |-> m]
                        ELSE ManagerConvertDirect(m, files[i], source_format, target_format)}} :
             TRUE

-----------------------------------------------------------------------------
(* The session of one RDFConverterManager built without a model: inputs    *)
(* and operations                                                          *)

\* Well-formed data of the shape a source format names; a text for a
\* format that names none.
DataFor(source_format) ==
    IF source_format = Formats.graph_networkx
    THEN <<"nx", [nodes |-> << <<Vals.KeyA, {<<Keys.labels, ListV(<<Vals.Person>>)>>}>>,
                              <<Vals.KeyB, {}>> >>,
                  edges |-> << <<Vals.KeyA, Vals.KeyB, {<<Keys.type, Vals.Knows>>}>> >>]>>
    ELSE IF source_format = Formats.graph_json
    THEN <<"json", [nodes |-> <<Recs.NodeA, Recs.NodeB>>, edges |-> <<Recs.EdgeSimple>>,
                    links |-> <<>>]>>
    ELSE IF source_format = Formats.graph_cypher
    THEN <<"cypher", << << <<"n", DictV(Recs.NodeA)>> >> >> >>
    ELSE IF source_format = Formats.excel THEN <<"excel", <<"g", ".", "x", "l", "s", "x">>>>
    ELSE <<"text", TextWorks>>

\* get_supported_formats()['input_formats']
InputFormats ==
    {Formats.text, Formats.graph_networkx, Formats.graph_json, Formats.graph_cypher,
     Formats.excel}

Manager ==
    [rdf |-> current_rdf, converter |-> current_converter, ok |-> rdf_ok,
     c |-> Converter, tgraph |-> tgraph]

\* The state after a manager operation op(args) that returned r.ret and
\* left the manager as r.m.
ManagerCommit(op, args, r) ==
    /\ mnops < MaxMgrOps
    /\ mnops' = mnops + 1
    /\ current_rdf' = r.m.rdf
    /\ current_converter' = r.m.converter
    /\ rdf_ok' = r.m.ok
    /\ graph' = r.m.c.graph
    /\ node_uri_map' = r.m.c.map
    /\ edge_counter' = r.m.c.ctr
    /\ tgraph' = r.m.tgraph
    /\ mlast' = [op |-> op, args |-> args, ret |-> r.ret,
                 before |-> [rdf |-> current_rdf, converter |-> current_converter,
                             ok |-> rdf_ok, graph |-> graph, tgraph |-> tgraph]]
    /\ UNCHANGED <<last, first_uri, ingested, nops, use_llm, tlast, tnops, mvars, cvars>>

ConvertToRdf ==
    \E f \in InputFormats \cup {Formats.invalid_format, Formats.graph_foo, Formats.text_foo},
       out \in {"None", "out.ttl"} :
        \E r \in {ManagerConvertToRdf(Manager, DataFor(f), f, out)} :
            ManagerCommit("convert_to_rdf", <<f, out>>, r)

ConvertFromRdf ==
    \E f \in {Formats.graph_json, Formats.text_summary, Formats.graph_foo, Formats.text_foo,
              Formats.invalid_format},
       file \in {"None", "in.ttl"} :
        \E r \in {ManagerConvertFromRdf(Manager, f, file)} :
            ManagerCommit("convert_from_rdf", <<f, file>>, r)

QueryRdf == \E r \in {ManagerQueryRdf(Manager)} : ManagerCommit("query_rdf", <<>>, r)

SaveCurrentRdf ==
    \E r \in {ManagerSaveCurrentRdf(Manager)} : ManagerCommit("save_current_rdf", <<>>, r)

LoadRdfFromFile ==
    \E r \in {ManagerLoadRdfFromFile(Manager)} : ManagerCommit("load_rdf_from_file", <<>>, r)

ClearRdf == \E r \in {ManagerClearRdf(Manager)} : ManagerCommit("clear_rdf", <<>>, r)

\* The files of a batch are each well-formed for the source format, or
\* unreadable.
BatchConvert ==
    \E f \in {Formats.text, Formats.graph_json} :
        \E files \in UNION {[1..n -> {DataFor(f), <<"bad">>}] : n \in 1..MaxFiles} :
            \E r \in {BatchLoop(Manager, files, 1, f, Formats.text_summary, {})} :
                ManagerCommit("batch_convert", <<f, files>>, r)

\* convert_direct(data, source_format, 'text_summary') of one item: one of
\* the texts, or the well-formed data of a graph format.
ConvertDirect ==
    \E f \in {Formats.text, Formats.graph_networkx, Formats.graph_json, Formats.graph_cypher} :
        \E d \in (IF f = Formats.text THEN {<<"text", t>> : t \in Texts} ELSE {DataFor(f)}) :
            \E r \in {ManagerConvertDirect(Manager, d, f, Formats.text_summary)} :
                ManagerCommit("convert_direct", <<f, d>>, r)

SpecManager ==
    Init /\ [][ConvertToRdf \/ ConvertFromRdf \/ QueryRdf \/ SaveCurrentRdf \/ LoadRdfFromFile
                 \/ ClearRdf \/ BatchConvert]_vars

\* The session of a manager that converts item after item.
SpecDirect == Init /\ [][ConvertDirect \/ ConvertFromRdf \/ QueryRdf \/ ClearRdf]_vars

-----------------------------------------------------------------------------
(* The manager's contract                                                  *)

\* C13: batch_convert over N input files returns a result map with exactly
\* N entries, records a file whose reading fails as False, and records
\* every well-formed file as a success.
C13_BatchIsolation ==
    mlast.op = "batch_convert" =>
        /\ mlast.ret[1] = "map"
        /\ Cardinality(mlast.ret[2]) = Len(mlast.args[2])
        /\ \A i \in 1..Len(mlast.args[2]) :
               <<i, mlast.args[2][i][1] # "bad">> \in mlast.ret[2]

\* C14: convert_to_rdf of well-formed input in a format that
\* get_supported_formats lists as an input format returns True and makes
\* the store of the matching converter the current RDF.
C14_SupportedInputAccepted ==
    (mlast.op = "convert_to_rdf" /\ mlast.args[1] \in InputFormats /\ mlast.args[2] = "None") =>
        /\ mlast.ret[2]
        /\ current_rdf = (IF mlast.args[1] = Formats.text THEN "text" ELSE "graph")
        /\ current_converter = current_rdf

C16_NoRdfState ==
    /\ (~mlast.before.ok /\ mlast.op = "convert_from_rdf" /\ mlast.args[2] = "None") =>
           \/ mlast.ret[1] = "n"
           \/ mlast.ret[1] = "s" /\ mlast.ret[2] = <<>>
    /\ (~mlast.before.ok /\ mlast.op = "query_rdf") => mlast.ret[2] = {}
    /\ (~mlast.before.ok /\ mlast.op = "save_current_rdf") => ~mlast.ret[2]
    /\ mlast.op = "clear_rdf" => (~rdf_ok /\ current_rdf = "None" /\ current_converter = "None")

\* C17: after a successful convert_to_rdf save_current_rdf returns True, and
\* load_rdf_from_file returns True and makes the loaded statements the
\* current RDF.
C17_SaveThenLoad ==
    /\ (mlast.op = "save_current_rdf" /\ mlast.before.ok) => mlast.ret[2]
    /\ mlast.op = "load_rdf_from_file" => (mlast.ret[2] /\ current_rdf # "None")

-----------------------------------------------------------------------------
(* Minting identifiers for two keys: _get_or_create_node_uri and           *)
(* _sanitize_name as functions of the keys                                 *)

\* Bound on the length of an external key.
MaxKeyLen == 3

\* ASCII word characters, a CJK letter, whitespace and punctuation.
KeyAlphabet == {"a", "b", "_", "U4E09", " ", "-"}

\* Two distinct external keys, not minted yet.
InitMint ==
    /\ GraphStart /\ TextStart(FALSE) /\ MergeIdle /\ ManagerStart
    /\ \E k1, k2 \in UNION {[1..n -> KeyAlphabet] : n \in 1..MaxKeyLen} :
           k1 # k2 /\ call_args = <<StrV(k1), StrV(k2)>>
    /\ call_ret = <<>>
    /\ call_done = FALSE

\* _get_or_create_node_uri for the first key, then for the second, on one
\* converter; call_ret is the node_uri_map after the two calls.
MintKeys ==
    /\ ~call_done
    /\ call_ret' = GetOrCreateNodeUri(GetOrCreateNodeUri(Converter, call_args[1]),
                                      call_args[2]).map
    /\ call_done' = TRUE
    /\ UNCHANGED <<call_args, gvars, tvars, mvars, rvars>>

SpecMint == InitMint /\ [][MintKeys]_vars

\* C18: two distinct external keys over ASCII word characters, CJK letters,
\* whitespace and punctuation are minted to two distinct identifiers.
C18_SanitizeInjective ==
    call_done => call_ret[call_args[1]] # call_ret[call_args[2]]

-----------------------------------------------------------------------------
(* The edge counter of a graph session                                     *)

\* C19: the edge counter never decreases; the edge nodes an operation adds
\* are named edge_n for the values n the counter passed during it, counted
\* from 0 at construction through every clear_graph; and no edge node stands
\* for two edges.
C19_EdgeCounter ==
    /\ edge_counter >= last.ctr
    /\ {t[1] : t \in {u \in graph \ last.graph : u[2] = hasSource}}
           = {EdgeUri(n) : n \in last.ctr..(edge_counter - 1)}
    /\ \A t \in graph :
           t[2] = hasSource =>
               /\ t[1] \in {EdgeUri(n) : n \in 0..(edge_counter - 1)}
               /\ Cardinality({u \in graph : u[1] = t[1] /\ u[2] \in {hasSource, hasTarget}}) = 2

\* An edge is reified as edge_1 into a store that was cleared after edge_0.
C19_Witness ==
    /\ last.op = "add_edge"
    /\ last.graph = {}
    /\ last.ctr = 1
    /\ edge_counter = 2
    /\ \E t \in graph : t[1] = EdgeUri(1) /\ t[2] = hasSource

-----------------------------------------------------------------------------
(* The types of a node record                                              *)

\* The types a node record declares: the entries of 'labels', or the value
\* of 'type' when the record also has a display 'label'.
DeclaredTypes(n) ==
    IF Has(n, Keys.labels) THEN Range(Get(n, Keys.labels, NoneV)[2])
    ELSE IF Has(n, Keys.type) /\ Has(n, Keys.label) THEN {Get(n, Keys.type, NoneV)}
    ELSE {}

\* C20: ingesting a node record with a declared type T adds the type
\* statement (identifier, type, class(T)) and the declaration of class(T),
\* extraction gives the node the type T, and the display label beside a
\* 'type' is not declared a class.
C20_TypeRoundTrip ==
    last.op = "add_node" =>
        /\ \A T \in DeclaredTypes(last.arg) :
               /\ <<last.calls[1][2], RDF_type, create_uri(SanitizeName(PyStr(T)))>> \in graph
               /\ <<create_uri(SanitizeName(PyStr(T))), RDF_type, OWL_Class>> \in graph
               /\ PyStr(T) \in GetEntityTypes(graph, last.calls[1][2])
        /\ (Has(last.arg, Keys.type) /\ Has(last.arg, Keys.label)) =>
               <<create_uri(SanitizeName(PyStr(Get(last.arg, Keys.label, NoneV)))),
                 RDF_type, OWL_Class>> \notin graph

-----------------------------------------------------------------------------
(* Extraction from the store of a graph session                            *)

\* C21: the node set extraction returns is exactly the set of subjects that
\* have a type statement whose object is a declared class.
C21_ExtractionNodeSet ==
    {n.uri : n \in ConvertToJson(graph).nodes}
        = {st[1] : st \in {t \in graph : t[2] = RDF_type
                                         /\ <<t[3], RDF_type, OWL_Class>> \in graph}}

C23_ReifiedEdgeDiscoverable ==
    (last.op = "add_edge" /\ EdgeProperties(last.arg) # {}) =>
        LET E == EdgeUri(last.ctr)
            J == ConvertToJson(graph)
            S == EdgeProperties(last.arg)
        IN /\ \E n \in J.nodes : n.uri = E
           /\ PyStr(RelationType(last.arg)) \o <<"_", "E", "d", "g", "e">>
                  \in GetEntityTypes(graph, E)
           /\ \A attrs \in GetEntityAttributes(graph, E) :
                  /\ DOMAIN attrs = {SanitizeName(p[1]) : p \in S}
                  /\ \A p \in S : attrs[SanitizeName(p[1])] = PyStr(p[2])
           /\ \E e \in J.edges : /\ e.source = GetNodeId(E)
                                 /\ e.relation_uri = hasSource
                                 /\ e.target = GetNodeId(first_uri[EdgeSource(last.arg)])
           /\ \E e \in J.edges : /\ e.source = GetNodeId(E)
                                 /\ e.relation_uri = hasTarget
                                 /\ e.target = GetNodeId(first_uri[EdgeTarget(last.arg)])

\* C24: for every entity and every statement (entity, p, literal) with p
\* other than the type and label predicates, the attributes extracted for
\* the entity hold the literal's value under the local name of p.
C24_AttributesComplete ==
    \A u \in GetAllEntities(graph) :
        \A attrs \in GetEntityAttributes(graph, u) :
            \A t \in graph :
                (t[1] = u /\ t[2] \notin {RDF_type, RDFS_label} /\ IsLit(t[3])) =>
                    /\ t[2][3] \in DOMAIN attrs
                    /\ attrs[t[2][3]] = PyStr(t[3][2])

-----------------------------------------------------------------------------
(* Pairwise assembly of the candidates of one sentence                     *)

\* The tokens of a sentence that are entity candidates, and those that are
\* relation candidates, in candidate-list order; the offset of a token in
\* the sentence.
EntityIndices(words) ==
    SelectSeq([k \in 1..Len(words) |-> k],
              LAMBDA k : EntityTypeOf(words[k].text, words[k].pos) # <<>>)

RelationIndices(words) ==
    SelectSeq([k \in 1..Len(words) |-> k],
              LAMBDA k : RelationTypeOf(words[k].text, words[k].pos) # <<>>)

Offset(words, k) == Len(SentenceText(SubSeq(words, 1, k - 1)))

\* The relation candidates that stand strictly between two tokens.
Between(words, a, b) ==
    {m \in 1..Len(RelationIndices(words)) :
        /\ Offset(words, a) < Offset(words, RelationIndices(words)[m])
        /\ Offset(words, RelationIndices(words)[m]) < Offset(words, b)}

OneSentence == call_done /\ \A k \in 1..Len(call_args) : ~IsSentenceEnd(call_args[k])

\* C25: a sentence with n >= 2 entity candidates and at least one relation
\* candidate yields one candidate per pair (i, j), i before j, n(n-1)/2 in
\* all, each with confidence 0.6 (6 tenths), and none otherwise; when a
\* relation candidate stands strictly between entity i and entity j, the
\* predicate is the first such relation of the candidate list.
C25_PairwiseAssembly ==
    OneSentence =>
        LET ents == EntityIndices(call_args)
            n == Len(ents)
            pairs == EntityPairs(1, 2, n)
        IN IF n >= 2 /\ Len(RelationIndices(call_args)) >= 1
           THEN /\ Len(call_ret) = (n * (n - 1)) \div 2
                /\ Len(call_ret) = Len(pairs)
                /\ \A k \in 1..Len(pairs) :
                       LET a == ents[pairs[k][1]]
                           b == ents[pairs[k][2]]
                           between == Between(call_args, a, b)
                       IN /\ call_ret[k].subject = call_args[a].text
                          /\ call_ret[k].object = call_args[b].text
                          /\ call_ret[k].confidence = 6
                          /\ between # {} =>
                                 call_ret[k].predicate =
                                     Canonical(call_args[RelationIndices(call_args)[
                                         CHOOSE m \in between : \A x \in between : m <= x]].text)
           ELSE call_ret = <<>>

\* C26: for a pair (i, j) of entity candidates, in a sentence of distinct
\* words, with no relation candidate strictly between them, the candidate
\* has the first entity of the sentence as its subject and the first entry
\* of the relation candidate list as its predicate.
C26_AssemblyFallback ==
    (/\ OneSentence
     /\ \A x, y \in 1..Len(call_args) : x # y => call_args[x].text # call_args[y].text
     /\ Len(EntityIndices(call_args)) >= 2
     /\ Len(RelationIndices(call_args)) >= 1) =>
        LET ents == EntityIndices(call_args)
            pairs == EntityPairs(1, 2, Len(ents))
        IN \A k \in 1..Len(pairs) :
               Between(call_args, ents[pairs[k][1]], ents[pairs[k][2]]) = {} =>
                   /\ k <= Len(call_ret)
                   /\ call_ret[k].subject = call_args[ents[1]].text
                   /\ call_ret[k].predicate =
                          Canonical(call_args[RelationIndices(call_args)[1]].text)

-----------------------------------------------------------------------------
(* The order of a node record and an edge that refers to it                *)

NodeKey(n) == Get(n, Keys.id, Get(n, Keys.name, NoneV))

\* The converter as it was before the last operation.
ConverterBefore ==
    [graph |-> last.graph, map |-> last.map, ctr |-> last.ctr, calls |-> <<>>]

\* C27: an edge endpoint has an identifier once the edge is ingested, whether
\* or not a node record listed it; and a node record and an edge that refers
\* to its node give the node the same identifier and the store the same
\* statements whether the node or the edge is ingested first.
C27_OrderIndependent ==
    /\ last.op = "add_edge" =>
           /\ {EdgeSource(last.arg), EdgeTarget(last.arg)} \subseteq DOMAIN node_uri_map
           /\ \A n \in NodeRecords :
                  NodeKey(n) \in {EdgeSource(last.arg), EdgeTarget(last.arg)} =>
                      LET edge_node == AddNodes(Converter, <<n>>)
                          node_edge == AddEdges(AddNodes(ConverterBefore, <<n>>), <<last.arg>>)
                      IN /\ edge_node.graph = node_edge.graph
                         /\ edge_node.map[NodeKey(n)] = node_edge.map[NodeKey(n)]
                         /\ edge_node.map[NodeKey(n)] = node_uri_map[NodeKey(n)]
    /\ last.op = "add_node" =>
           \A e \in EdgeRecords :
               NodeKey(last.arg) \in {EdgeSource(e), EdgeTarget(e)} =>
                   LET node_edge == AddEdges(Converter, <<e>>)
                       edge_node == AddNodes(AddEdges(ConverterBefore, <<e>>), <<last.arg>>)
                   IN /\ node_edge.graph = edge_node.graph
                      /\ node_edge.map[NodeKey(last.arg)] = edge_node.map[NodeKey(last.arg)]
                      /\ node_edge.map[NodeKey(last.arg)] = node_uri_map[NodeKey(last.arg)]

\* A node record is ingested after an edge that referred to its node, which
\* no node record had listed.
C27_Witness ==
    /\ nops = 2
    /\ last.op = "add_node"
    /\ last.map # <<>>
    /\ \E e \in last.seen :
           /\ NodeKey(last.arg) \in {EdgeSource(e), EdgeTarget(e)}
           /\ last.graph = AddEdges([graph |-> {}, map |-> <<>>, ctr |-> 0, calls |-> <<>>],
                                    <<e>>).graph

-----------------------------------------------------------------------------
(* One manager, several items                                              *)

\* An RDFConverterManager after construction.
NewManager ==
    [rdf |-> "None", converter |-> "None", ok |-> FALSE,
     c |-> [graph |-> {}, map |-> <<>>, ctr |-> 0, calls |-> <<>>], tgraph |-> {}]

\* C28: the result convert_direct produces for an item holds no statement
\* of the store as it was before the call, unless the item's own input
\* yields that statement on a new manager.
C28_ItemIndependence ==
    (mlast.op = "convert_direct" /\ mlast.ret[1] = "out") =>
        LET before == IF StartsWith(mlast.args[1], Formats.text)
                      THEN mlast.before.tgraph ELSE mlast.before.graph
            own == ManagerConvertDirect(NewManager, mlast.args[2], mlast.args[1],
                                        Formats.text_summary).ret[3]
        IN \A st \in mlast.ret[3] : st \in before => st \in own

\* C29: a convert_to_rdf call that returns False leaves current_rdf and
\* current_converter as they were before the call; and in every state
\* current_rdf is None exactly when current_converter is None, and is
\* otherwise the store of current_converter.
C29_FailedConversionUnchanged ==
    /\ (mlast.op = "convert_to_rdf" /\ mlast.ret = <<"b", FALSE>>) =>
           /\ current_rdf = mlast.before.rdf
           /\ current_converter = mlast.before.converter
    /\ (current_rdf = "None") <=> (current_converter = "None")
    /\ current_rdf = current_converter

-----------------------------------------------------------------------------
(* _add_triple_to_rdf call after call on one TextToRDFConverter            *)

MaxAddCalls == 3

\* The candidates of the calls: those of the merge, and one without
\* confidence.
AddCandidates ==
    MergeCandidates
    \cup {ExtractedTriple(Words.LiSi, Names.invests, Words.Company, 0,
                          Names.Person, Names.Organization, Names.Predefined)}

\* One call _add_triple_to_rdf(triple); call_args lists the candidates of
\* the calls so far, tlast.graph is the store before the call.
AddTripleCall ==
    /\ tnops < MaxAddCalls
    /\ \E triple \in AddCandidates :
          /\ tgraph' = AddTripleToRdf(tgraph, triple)
          /\ call_args' = Append(call_args, triple)
    /\ tlast' = [tlast EXCEPT !.op = "add_triple", !.graph = tgraph]
    /\ tnops' = tnops + 1
    /\ UNCHANGED <<use_llm, call_ret, call_done, gvars, mvars, rvars>>

SpecStatements == Init /\ [][AddTripleCall]_vars

\* The statement nodes of a store.
StatementNodes(g) ==
    {st[1] : st \in {x \in g : x[2] = RDF_type /\ x[3] = StatementVocabulary.Statement}}

\* C30: from an empty store, each _add_triple_to_rdf call with confidence
\* above 0 mints the statement node statement_<store size>, which no
\* earlier call used, and the store grows; so the store has one statement
\* node per such call, each with one subject, predicate, object and
\* confidence, and every candidate added has a record of its own, also
\* when the same candidate is added again.
C30_StatementNodesUnique ==
    LET V == StatementVocabulary
        nodes == StatementNodes(tgraph)
        accepted == {i \in 1..Len(call_args) : call_args[i].confidence > 0}
        values(s, p) == {st[3] : st \in {x \in tgraph : x[1] = s /\ x[2] = p}}
        records(t) ==
            {s \in nodes :
                /\ values(s, V.hasSubject) = {create_uri(SanitizeName(t.subject))}
                /\ values(s, V.hasPredicate) = {create_uri(SanitizeName(t.predicate))}
                /\ values(s, V.hasObject) =
                       {IF IsLiteral(t.object) THEN Lit(StrV(t.object))
                        ELSE create_uri(SanitizeName(t.object))}
                /\ values(s, V.confidence) = {Lit(<<"f", t.confidence>>)}}
    IN /\ Cardinality(nodes) = Cardinality(accepted)
       /\ \A i \in accepted :
              Cardinality(records(call_args[i]))
                  = Cardinality({j \in accepted : call_args[j] = call_args[i]})
       /\ (tlast.op = "add_triple" /\ call_args[Len(call_args)].confidence > 0) =>
              /\ Cardinality(tgraph) > Cardinality(tlast.graph)
              /\ \E n \in Cardinality(tlast.graph)..Cardinality(tgraph) :
                     /\ StatementUri(n) \in nodes \ StatementNodes(tlast.graph)
                     /\ Cardinality(tgraph) = n + 5

\* The same candidate is added twice and has two statement nodes.
C30_Witness ==
    /\ Len(call_args) >= 2
    /\ call_args[1] = call_args[2]
    /\ call_args[1].confidence > 0
    /\ Cardinality(StatementNodes(tgraph)) >= 2

====
